---- MODULE Spec2Model ----
(***************************************************************************)
(* aioppspp: the connection runtime (aioppspp/connector.py,                *)
(* aioppspp/connection.py, aioppspp/udp.py).                               *)
(*                                                                         *)
(* One connector, its pool of endpoints (protocols) keyed by address, the  *)
(* connection handles it has spawned, the in-flight _connect coroutines,   *)
(* the event loop's closed flag and the finalizers of garbage objects.     *)
(***************************************************************************)
EXTENDS Integers, Sequences, FiniteSets, TLC

\* Addresses used as pool keys (connect: remote address, listen: local address).
Keys == {"addr1", "addr2"}

\* Bounds of the model.
MaxEndpoints == 2      \* create_endpoint invocations
MaxConnections == 3    \* Connection handles spawned
MaxPending == 1        \* _connect coroutines suspended at the same time

\* Python's None, for Connection._protocol and for a creation that has no
\* protocol yet.
None == 0

VARIABLES
    closed,             \* BaseConnector._closed
    pool,               \* BaseConnector._pool: key -> list of protocols
    acquired,           \* BaseConnector._acquired: defaultdict(set), key -> set of connections
                        \* (a key it does not hold reads as the empty set)
    connection_timeout, \* BaseConnector._connection_timeout (0: not configured)
    conns,              \* every Connection spawned: [key, protocol, finalized]
    eps,                \* every protocol created: [transport], TRUE while _transport is set
    pending,            \* _connect coroutines suspended in `await connect_future`
    loop_closed,        \* loop.is_closed()
    garbage,            \* the program dropped its references: finalizers run
    connector_finalized,\* BaseConnector.__del__ has run
    warnings,           \* ResourceWarnings emitted, by subject
    exc_handler,        \* contexts given to loop.call_exception_handler, by subject
    releaseLog,         \* history: per key, the endpoints released and not yet reused, oldest first
    ended,              \* history: the connections on which the program's close() or release() has returned
    last,               \* the call or callback that made the last step, and how it ended
    sockets,            \* the socket under each endpoint's transport: [family, made],
                        \* and [port, peer] where datagrams travel between endpoints
    delivered,          \* history: <<endpoint, data, addr>> of every datagram_received callback, in order
    received,           \* history: <<endpoint, datagram>> of every value a recv returned, in order
    network,            \* history: every datagram a transport sent, and whether it has arrived
    codec               \* the last codec call: its name, its argument and its outcome

vars == <<closed, pool, acquired, connection_timeout, conns, eps, pending,
          loop_closed, garbage, connector_finalized, warnings, exc_handler,
          releaseLog, ended, last, sockets, delivered, received, network, codec>>

\* What the connector's own operations never touch.
udp_vars == <<sockets, delivered, received, network>>

----------------------------------------------------------------------------
\* Python containers

EmptyDict == [x \in {} |-> None]

DictSet(d, k, v) == [x \in (DOMAIN d) \cup {k} |-> IF x = k THEN v ELSE d[x]]

DictDel(d, k) == [x \in (DOMAIN d) \ {k} |-> d[x]]

\* defaultdict(set): every key reads as a set, empty until something is added.
EmptyDefaultDict == [k \in Keys |-> {}]

Range(s) == {s[i] : i \in DOMAIN s}

RemoveAt(s, i) == SubSeq(s, 1, i - 1) \o SubSeq(s, i + 1, Len(s))

RECURSIVE Without(_, _)
Without(s, x) ==
    IF s = <<>> THEN <<>>
    ELSE IF Head(s) = x THEN Without(Tail(s), x)
    ELSE <<Head(s)>> \o Without(Tail(s), x)

\* The orders a dict's keys may be iterated in.
Orders(S) == {q \in [1..Cardinality(S) -> S] : Range(q) = S}

----------------------------------------------------------------------------
\* BaseProtocol

\* A protocol as constructed: no transport, an empty asyncio.Queue as _buffer
\* (its items, and how many recv coroutines wait in Queue.get).
NewProtocol == [transport |-> FALSE, buffer |-> <<>>, getters |-> 0]

\* BaseProtocol.closed, for protocol e of the protocols E
ProtocolClosed(E, e) == ~E[e].transport

\* BaseProtocol.connection_made
connection_made(E, e) == [E EXCEPT ![e].transport = TRUE]

\* connection_lost keeping the transport.
connection_lost_keeps_transport(E, e) == E

\* BaseProtocol.connection_lost
connection_lost(E, e) == [E EXCEPT ![e].transport = FALSE]

\* BaseProtocol.close: self._transport.close(); self._transport = None.
\* With no transport, None.close() raises AttributeError.
ProtocolClose(E, e) ==
    IF E[e].transport
    THEN [eps |-> [E EXCEPT ![e].transport = FALSE], error |-> "none"]
    ELSE [eps |-> E, error |-> "AttributeError"]

----------------------------------------------------------------------------
\* Connection

\* Connection.closed
ConnClosed(C, E, c) ==
    C[c].protocol = None \/ ProtocolClosed(E, C[c].protocol)

\* BaseConnector._spawn_connection / Connection.__init__
spawn_connection(key, protocol) ==
    [key |-> key, protocol |-> protocol, finalized |-> FALSE]

\* What a step reports in `last`: the call, the connection it is about or
\* returns, how it ended (result: "returned", "Connection", "create_endpoint"
\* for a call suspended in endpoint creation, or the exception raised; cause:
\* the exception's __cause__), whether it called through (a Connection method
\* or finalizer: the connector's callback; connect/listen: create_endpoint;
\* close: the closing itself), and whether a diagnostic was emitted.
Rep(op) ==
    [op |-> op, c |-> None, result |-> "returned", cause |-> "none",
     called |-> FALSE, diag |-> FALSE]

----------------------------------------------------------------------------
\* BaseConnector: the synchronous methods, as functions of the state they read.
\* K: _closed, P: _pool, A: _acquired, E: the protocols, C: the connections.

\* _get_connection taking the oldest pooled protocol instead of the newest.
get_connection_fifo(P, key) ==
    IF key \in DOMAIN P /\ P[key] # <<>>
    THEN LET protocols == P[key]
             rest == Tail(protocols)
         IN [protocol |-> Head(protocols),
             pool |-> IF rest = <<>> THEN DictDel(P, key) ELSE DictSet(P, key, rest),
             error |-> "none"]
    ELSE [protocol |-> None, pool |-> P,
          error |-> IF key \in DOMAIN P THEN "AssertionError" ELSE "none"]

\* _get_connection handing out the newest pooled protocol without taking it
\* off the pool.
get_connection_peek(P, key) ==
    IF key \in DOMAIN P /\ P[key] # <<>>
    THEN [protocol |-> P[key][Len(P[key])], pool |-> P, error |-> "none"]
    ELSE [protocol |-> None, pool |-> P,
          error |-> IF key \in DOMAIN P THEN "AssertionError" ELSE "none"]

\* _get_connection popping the last protocol but never dropping the key.
get_connection_keeps_key(P, key) ==
    IF key \in DOMAIN P /\ P[key] # <<>>
    THEN LET protocols == P[key]
             protocol == protocols[Len(protocols)]
             rest == SubSeq(protocols, 1, Len(protocols) - 1)
         IN [protocol |-> protocol, pool |-> DictSet(P, key, rest),
             error |-> "none"]
    ELSE [protocol |-> None, pool |-> P,
          error |-> IF key \in DOMAIN P THEN "AssertionError" ELSE "none"]

\* BaseConnector._get_connection: pop the last protocol of pool[key], dropping
\* the key when the list becomes empty. An empty list left under the key trips
\* the assertion.
get_connection(P, key) ==
    IF key \in DOMAIN P /\ P[key] # <<>>
    THEN LET protocols == P[key]
             protocol == protocols[Len(protocols)]
             rest == SubSeq(protocols, 1, Len(protocols) - 1)
         IN [protocol |-> protocol,
             pool |-> IF rest = <<>> THEN DictDel(P, key) ELSE DictSet(P, key, rest),
             error |-> "none"]
    ELSE [protocol |-> None, pool |-> P,
          error |-> IF key \in DOMAIN P THEN "AssertionError" ELSE "none"]

\* close_connection closing the protocol but leaving the connection in acquired.
close_connection_keeps_acquired(K, A, E, C, c) ==
    IF K THEN [acquired |-> A, eps |-> E, error |-> "none"]
    ELSE LET r == ProtocolClose(E, C[c].protocol)
         IN [acquired |-> A, eps |-> r.eps, error |-> r.error]

\* BaseConnector.close_connection
close_connection(K, A, E, C, c) ==
    IF K THEN [acquired |-> A, eps |-> E, error |-> "none"]
    ELSE LET key == C[c].key
             r == ProtocolClose(E, C[c].protocol)
         IN [acquired |-> [A EXCEPT ![key] = @ \ {c}],
             eps |-> r.eps, error |-> r.error]

\* release_connection putting the protocol under the pooled ones instead of on
\* top of them.
release_connection_bottom(K, A, P, C, c) ==
    IF K THEN [acquired |-> A, pool |-> P]
    ELSE LET key == C[c].key
             protocols == IF key \in DOMAIN P THEN P[key] ELSE <<>>
         IN [acquired |-> [A EXCEPT ![key] = @ \ {c}],
             pool |-> DictSet(P, key, <<C[c].protocol>> \o protocols)]

\* BaseConnector.release_connection
release_connection(K, A, P, C, c) ==
    IF K THEN [acquired |-> A, pool |-> P]
    ELSE LET key == C[c].key
             protocols == IF key \in DOMAIN P THEN P[key] ELSE <<>>
         IN [acquired |-> [A EXCEPT ![key] = @ \ {c}],
             pool |-> DictSet(P, key, Append(protocols, C[c].protocol))]

\* Connection.close
connection_close(K, A, E, C, c) ==
    IF ConnClosed(C, E, c)
    THEN [acquired |-> A, eps |-> E, conns |-> C, error |-> "none", called |-> FALSE]
    ELSE LET r == close_connection(K, A, E, C, c)
         IN [acquired |-> r.acquired, eps |-> r.eps,
             conns |-> IF r.error = "none" THEN [C EXCEPT ![c].protocol = None] ELSE C,
             error |-> r.error, called |-> TRUE]

\* Connection.release forgetting to drop its protocol.
connection_release_keeps_protocol(K, A, P, E, C, c) ==
    IF ConnClosed(C, E, c)
    THEN [acquired |-> A, pool |-> P, conns |-> C, called |-> FALSE]
    ELSE LET r == release_connection(K, A, P, C, c)
         IN [acquired |-> r.acquired, pool |-> r.pool, conns |-> C, called |-> TRUE]

\* Connection.release
connection_release(K, A, P, E, C, c) ==
    IF ConnClosed(C, E, c)
    THEN [acquired |-> A, pool |-> P, conns |-> C, called |-> FALSE]
    ELSE LET r == release_connection(K, A, P, C, c)
         IN [acquired |-> r.acquired, pool |-> r.pool,
             conns |-> [C EXCEPT ![c].protocol = None], called |-> TRUE]

\* BaseConnector.close, first loop: protocol.close() for the pooled protocols
\* in iteration order; the first exception ends the loop.
RECURSIVE ClosePooled(_, _)
ClosePooled(E, protocols) ==
    IF protocols = <<>> THEN [eps |-> E, error |-> "none"]
    ELSE LET r == ProtocolClose(E, Head(protocols))
         IN IF r.error # "none" THEN r ELSE ClosePooled(r.eps, Tail(protocols))

\* The pooled protocols in the order `for key, protocols in self._pool.items()`
\* visits them, for the key order `order`.
RECURSIVE PooledInOrder(_, _)
PooledInOrder(P, order) ==
    IF order = <<>> THEN <<>>
    ELSE P[Head(order)] \o PooledInOrder(P, Tail(order))

\* chain.from_iterable(map(list, self._acquired.values())): each set is copied
\* before its connections are closed.
RECURSIVE SetToSeq(_)
SetToSeq(S) ==
    IF S = {} THEN <<>>
    ELSE LET x == CHOOSE y \in S : \A z \in S : y <= z
         IN <<x>> \o SetToSeq(S \ {x})

AcquiredSnapshot(A) == SetToSeq(UNION {A[k] : k \in Keys})

\* BaseConnector.close, second loop: connection.close() for the snapshot.
RECURSIVE CloseAcquired(_, _, _, _)
CloseAcquired(A, E, C, todo) ==
    IF todo = <<>> THEN [acquired |-> A, eps |-> E, conns |-> C, error |-> "none"]
    ELSE LET r == connection_close(FALSE, A, E, C, Head(todo))
         IN IF r.error # "none"
            THEN [acquired |-> r.acquired, eps |-> r.eps, conns |-> r.conns,
                  error |-> r.error]
            ELSE CloseAcquired(r.acquired, r.eps, r.conns, Tail(todo))

\* BaseConnector.close without the loop.is_closed() check.
connector_close_ignores_loop(K, L, P, A, E, C, order) ==
    IF K
    THEN [closed |-> K, pool |-> P, acquired |-> A, eps |-> E, conns |-> C,
          error |-> "none"]
    ELSE LET p == ClosePooled(E, PooledInOrder(P, order))
             a == IF p.error # "none"
                  THEN [eps |-> p.eps, conns |-> C, error |-> p.error]
                  ELSE CloseAcquired(A, p.eps, C, AcquiredSnapshot(A))
         IN [closed |-> TRUE, pool |-> EmptyDict, acquired |-> EmptyDefaultDict,
             eps |-> a.eps, conns |-> a.conns, error |-> a.error]

\* BaseConnector.close, for the order `order` of the pool's keys. The finally
\* clause clears pool and acquired and sets _closed however the try block ends.
connector_close(K, L, P, A, E, C, order) ==
    IF K
    THEN [closed |-> K, pool |-> P, acquired |-> A, eps |-> E, conns |-> C,
          error |-> "none"]
    ELSE IF L
    THEN [closed |-> TRUE, pool |-> EmptyDict, acquired |-> EmptyDefaultDict, eps |-> E,
          conns |-> C, error |-> "none"]
    ELSE LET p == ClosePooled(E, PooledInOrder(P, order))
             a == IF p.error # "none"
                  THEN [eps |-> p.eps, conns |-> C, error |-> p.error]
                  ELSE CloseAcquired(A, p.eps, C, AcquiredSnapshot(A))
         IN [closed |-> TRUE, pool |-> EmptyDict, acquired |-> EmptyDefaultDict,
             eps |-> a.eps, conns |-> a.conns, error |-> a.error]

\* Connection.__del__ reporting the leak without closing the connection.
connection_del_report_only(K, L, A, E, C, c) ==
    IF ConnClosed(C, E, c) \/ L
    THEN [acquired |-> A, eps |-> E, error |-> "none", called |-> FALSE,
          diag |-> FALSE]
    ELSE [acquired |-> A, eps |-> E, error |-> "none", called |-> FALSE,
          diag |-> TRUE]

\* Connection.__del__: nothing when closed or when the loop is closed;
\* otherwise close_connection, then the warning and the exception handler.
connection_del(K, L, A, E, C, c) ==
    IF ConnClosed(C, E, c) \/ L
    THEN [acquired |-> A, eps |-> E, error |-> "none", called |-> FALSE,
          diag |-> FALSE]
    ELSE LET r == close_connection(K, A, E, C, c)
         IN [acquired |-> r.acquired, eps |-> r.eps, error |-> r.error,
             called |-> TRUE, diag |-> r.error = "none"]

\* BaseConnector.__del__: nothing when closed or when the pool is empty;
\* otherwise close(), then the warning and the exception handler.
connector_del(K, L, P, A, E, C, order) ==
    IF K \/ DOMAIN P = {}
    THEN [closed |-> K, pool |-> P, acquired |-> A, eps |-> E, conns |-> C,
          error |-> "none", diag |-> FALSE]
    ELSE LET r == connector_close(K, L, P, A, E, C, order)
         IN [closed |-> r.closed, pool |-> r.pool, acquired |-> r.acquired,
             eps |-> r.eps, conns |-> r.conns, error |-> r.error,
             diag |-> r.error = "none"]

\* _connect adding to acquired in a finally clause instead of the else clause.
connect_result_finally(A, key, c, exc) ==
    [acquired |-> [A EXCEPT ![key] = @ \cup {c}],
     result |-> IF exc = "asyncio.TimeoutError" THEN "TimeoutError"
                ELSE IF exc = "OSError" THEN "ConnectionError" ELSE "Connection",
     cause |-> exc]

\* _connect without its `except asyncio.TimeoutError` clause.
connect_result_no_timeout_clause(A, key, c, exc) ==
    IF exc = "asyncio.TimeoutError"
    THEN [acquired |-> A, result |-> exc, cause |-> "none"]
    ELSE IF exc = "OSError"
    THEN [acquired |-> A, result |-> "ConnectionError", cause |-> exc]
    ELSE [acquired |-> [A EXCEPT ![key] = @ \cup {c}],
          result |-> "Connection", cause |-> "none"]

\* BaseConnector._connect, after `await connect_future`: exc is what the await
\* raised ("none": it returned the protocol of connection c). TimeoutError and
\* ConnectionError are raised `from exc`; only the else clause touches acquired.
connect_result(A, key, c, exc) ==
    IF exc = "asyncio.TimeoutError"
    THEN [acquired |-> A, result |-> "TimeoutError", cause |-> exc]
    ELSE IF exc = "OSError"
    THEN [acquired |-> A, result |-> "ConnectionError", cause |-> exc]
    ELSE [acquired |-> [A EXCEPT ![key] = @ \cup {c}],
          result |-> "Connection", cause |-> "none"]

\* Connector.create_endpoint (udp): loop.create_datagram_endpoint builds the
\* protocol with protocol_factory() and its transport calls connection_made
\* before the endpoint is handed back.
create_endpoint(E) == connection_made(Append(E, NewProtocol), Len(E) + 1)

\* asyncio.wait_for cancels the creation when the timeout fires. A creation
\* cancelled after its transport was made has the transport closed by
\* loop.create_datagram_endpoint, which reaches the protocol as connection_lost.
cancel_creation(E, protocol) ==
    IF protocol = None THEN E ELSE connection_lost(E, protocol)

----------------------------------------------------------------------------
ConnectorInit ==
    /\ closed = FALSE
    /\ pool = EmptyDict
    /\ acquired = EmptyDefaultDict
    /\ connection_timeout \in {0, 1}
    /\ conns = <<>>
    /\ eps = <<>>
    /\ pending = <<>>
    /\ loop_closed = FALSE
    /\ garbage = FALSE
    /\ connector_finalized = FALSE
    /\ warnings = {}
    /\ exc_handler = {}
    /\ releaseLog = [k \in Keys |-> <<>>]
    /\ ended = {}
    /\ last = Rep("init")
    /\ sockets = EmptyDict
    /\ delivered = <<>>
    /\ received = <<>>
    /\ network = <<>>

\* No codec call made yet.
Init == ConnectorInit /\ codec = [op |-> "init"]

Creating == {i \in DOMAIN pending : pending[i].protocol = None}

Live(c) == c \in DOMAIN conns /\ ~conns[c].finalized

Running == ~garbage /\ ~loop_closed

\* BaseConnector._connect up to its first await, for connect (op = "connect")
\* and listen (op = "listen"): a pooled protocol is handed out at once,
\* otherwise create_endpoint is called and the coroutine suspends.
connect_begin(op, key) ==
    /\ Running
    /\ LET g == get_connection(pool, key)
           c == Len(conns) + 1
       IN IF g.error # "none"
          THEN /\ last' = [Rep(op) EXCEPT !.result = g.error]
               /\ UNCHANGED <<ended, closed, pool, acquired, connection_timeout, conns,
                              eps, pending, loop_closed, garbage,
                              connector_finalized, warnings, exc_handler,
                              releaseLog>>
          ELSE IF g.protocol # None
          THEN /\ Len(conns) + Len(pending) < MaxConnections
               /\ conns' = Append(conns, spawn_connection(key, g.protocol))
               /\ pool' = g.pool
               /\ acquired' = connect_result(acquired, key, c, "none").acquired
               /\ releaseLog' = [releaseLog EXCEPT ![key] = Without(@, g.protocol)]
               /\ last' = [Rep(op) EXCEPT !.c = c,
                                          !.result = "Connection"]
               /\ UNCHANGED <<ended, closed, connection_timeout, eps, pending,
                              loop_closed, garbage, connector_finalized,
                              warnings, exc_handler>>
          ELSE /\ Len(pending) < MaxPending
               /\ Len(conns) + Len(pending) < MaxConnections
               /\ Len(eps) + Cardinality(Creating) < MaxEndpoints
               /\ pending' = Append(pending, [op |-> op, key |-> key, protocol |-> None])
               /\ pool' = g.pool
               /\ last' = [Rep(op) EXCEPT !.result = "create_endpoint", !.called = TRUE]
               /\ UNCHANGED <<ended, closed, acquired, connection_timeout, conns, eps,
                              loop_closed, garbage, connector_finalized,
                              warnings, exc_handler, releaseLog>>
    /\ UNCHANGED <<udp_vars, codec>>

\* BaseConnector.connect
Connect(key) == connect_begin("connect", key)

\* BaseConnector.listen
Listen(key) == connect_begin("listen", key)

\* The socket create_endpoint makes for connect(key), which passes
\* remote_address=key, and for listen(key), which passes local_address=key;
\* role says which of the two addresses the key is.
endpoint_socket(op, key) ==
    [family |-> "AF_INET", made |-> TRUE, role |-> op, address |-> key]

\* Connector.create_endpoint reaches the point where the endpoint exists.
EndpointCreated(i) ==
    /\ ~loop_closed
    /\ i \in Creating
    /\ eps' = create_endpoint(eps)
    /\ pending' = [pending EXCEPT ![i].protocol = Len(eps) + 1]
    /\ last' = [Rep("create_endpoint") EXCEPT !.result = "made"]
    /\ UNCHANGED <<ended, closed, pool, acquired, connection_timeout, conns,
                   loop_closed, garbage, connector_finalized, warnings,
                   exc_handler, releaseLog>>
    /\ UNCHANGED <<delivered, received, network, codec>>

\* The endpoint is created; its socket is not followed.
EndpointMade(i) == EndpointCreated(i) /\ UNCHANGED sockets

\* The endpoint is created, and the socket made for it is remembered.
EndpointBound(i) ==
    /\ EndpointCreated(i)
    /\ sockets' = DictSet(sockets, Len(eps) + 1,
                          endpoint_socket(pending[i].op, pending[i].key))

\* `await connect_future` returns the protocol: the connection is spawned, added
\* to acquired and returned.
ConnectDone(i) ==
    /\ ~loop_closed
    /\ i \in DOMAIN pending /\ pending[i].protocol # None
    /\ LET t == pending[i]
           c == Len(conns) + 1
           r == connect_result(acquired, t.key, c, "none")
       IN /\ conns' = Append(conns, spawn_connection(t.key, t.protocol))
          /\ acquired' = r.acquired
          /\ pending' = RemoveAt(pending, i)
          /\ last' = [Rep(t.op) EXCEPT !.c = c, !.result = r.result,
                                       !.cause = r.cause, !.called = TRUE]
    /\ UNCHANGED <<ended, closed, pool, connection_timeout, eps, loop_closed, garbage,
                   connector_finalized, warnings, exc_handler, releaseLog>>
    /\ UNCHANGED <<udp_vars, codec>>

\* The connect timeout fires while the creation is in flight.
ConnectTimedOut(i) ==
    /\ ~loop_closed
    /\ connection_timeout # 0
    /\ i \in DOMAIN pending
    /\ LET t == pending[i]
           r == connect_result(acquired, t.key, Len(conns) + 1, "asyncio.TimeoutError")
       IN /\ eps' = cancel_creation(eps, t.protocol)
          /\ acquired' = r.acquired
          /\ pending' = RemoveAt(pending, i)
          /\ last' = [Rep(t.op) EXCEPT !.result = r.result, !.cause = r.cause,
                                       !.called = TRUE]
    /\ UNCHANGED <<ended, closed, pool, connection_timeout, conns, loop_closed, garbage,
                   connector_finalized, warnings, exc_handler, releaseLog>>
    /\ UNCHANGED <<udp_vars, codec>>

\* The transport refuses the endpoint: create_endpoint raises OSError before
\* any protocol is built.
ConnectOSError(i) ==
    /\ ~loop_closed
    /\ i \in Creating
    /\ LET t == pending[i]
           r == connect_result(acquired, t.key, Len(conns) + 1, "OSError")
       IN /\ acquired' = r.acquired
          /\ pending' = RemoveAt(pending, i)
          /\ last' = [Rep(t.op) EXCEPT !.result = r.result, !.cause = r.cause,
                                       !.called = TRUE]
    /\ UNCHANGED <<ended, closed, pool, connection_timeout, conns, eps, loop_closed,
                   garbage, connector_finalized, warnings, exc_handler,
                   releaseLog>>
    /\ UNCHANGED <<udp_vars, codec>>

\* Connection.close() called by the program.
ConnectionClose(c) ==
    /\ Running
    /\ Live(c)
    /\ LET r == connection_close(closed, acquired, eps, conns, c)
       IN /\ acquired' = r.acquired
          /\ eps' = r.eps
          /\ conns' = r.conns
          /\ last' = [Rep("Connection.close") EXCEPT
                         !.c = c,
                         !.result = IF r.error = "none" THEN "returned" ELSE r.error,
                         !.called = r.called]
          /\ ended' = IF r.error = "none" THEN ended \cup {c} ELSE ended
    /\ UNCHANGED <<closed, pool, connection_timeout, pending, loop_closed,
                   garbage, connector_finalized, warnings, exc_handler,
                   releaseLog>>
    /\ UNCHANGED <<udp_vars, codec>>

\* Connection.release() emptying the receive buffer of the protocol it pools.
ConnectionRelease_drops_buffer(c) ==
    /\ Running
    /\ Live(c)
    /\ LET r == connection_release(closed, acquired, pool, eps, conns, c)
       IN /\ acquired' = r.acquired
          /\ pool' = r.pool
          /\ conns' = r.conns
          /\ eps' = IF r.called
                    THEN [eps EXCEPT ![conns[c].protocol].buffer = <<>>]
                    ELSE eps
          /\ releaseLog' = IF r.called /\ ~closed
                           THEN [releaseLog EXCEPT
                                    ![conns[c].key] = Append(@, conns[c].protocol)]
                           ELSE releaseLog
          /\ last' = [Rep("Connection.release") EXCEPT !.c = c, !.called = r.called]
          /\ ended' = ended \cup {c}
    /\ UNCHANGED <<closed, connection_timeout, pending, loop_closed,
                   garbage, connector_finalized, warnings, exc_handler>>
    /\ UNCHANGED <<udp_vars, codec>>

\* Connection.release() called by the program.
ConnectionRelease(c) ==
    /\ Running
    /\ Live(c)
    /\ LET r == connection_release(closed, acquired, pool, eps, conns, c)
       IN /\ acquired' = r.acquired
          /\ pool' = r.pool
          /\ conns' = r.conns
          /\ releaseLog' = IF r.called /\ ~closed
                           THEN [releaseLog EXCEPT
                                    ![conns[c].key] = Append(@, conns[c].protocol)]
                           ELSE releaseLog
          /\ last' = [Rep("Connection.release") EXCEPT !.c = c, !.called = r.called]
          /\ ended' = ended \cup {c}
    /\ UNCHANGED <<closed, connection_timeout, eps, pending, loop_closed,
                   garbage, connector_finalized, warnings, exc_handler>>
    /\ UNCHANGED <<udp_vars, codec>>

\* BaseConnector.close() called by the program; the pool's keys are visited in
\* the dict's order, which is any order.
ConnectorClose ==
    /\ ~garbage
    /\ \E order \in Orders(DOMAIN pool) :
         LET r == connector_close(closed, loop_closed, pool, acquired, eps, conns, order)
         IN /\ closed' = r.closed
            /\ pool' = r.pool
            /\ acquired' = r.acquired
            /\ eps' = r.eps
            /\ conns' = r.conns
            /\ releaseLog' = IF closed THEN releaseLog ELSE [k \in Keys |-> <<>>]
            /\ last' = [Rep("Connector.close") EXCEPT
                           !.result = IF r.error = "none" THEN "returned" ELSE r.error,
                           !.called = ~closed]
    /\ UNCHANGED <<ended, connection_timeout, pending, loop_closed, garbage,
                   connector_finalized, warnings, exc_handler>>
    /\ UNCHANGED <<udp_vars, codec>>

\* The transport of an attached protocol is lost: BaseProtocol.connection_lost.
ConnectionLost(e) ==
    /\ ~loop_closed
    /\ e \in DOMAIN eps /\ eps[e].transport
    /\ eps' = connection_lost(eps, e)
    /\ last' = Rep("connection_lost")
    /\ UNCHANGED <<ended, closed, pool, acquired, connection_timeout, conns, pending,
                   loop_closed, garbage, connector_finalized, warnings,
                   exc_handler, releaseLog>>
    /\ UNCHANGED <<udp_vars, codec>>

\* loop.close(): the loop is not running, and whatever is pending never resumes.
LoopClose ==
    /\ ~loop_closed
    /\ ~garbage
    /\ loop_closed' = TRUE
    /\ last' = Rep("loop.close")
    /\ UNCHANGED <<ended, closed, pool, acquired, connection_timeout, conns, eps,
                   pending, garbage, connector_finalized, warnings, exc_handler,
                   releaseLog>>
    /\ UNCHANGED <<udp_vars, codec>>

\* The program drops its references to the connector and its connections: from
\* here on only finalizers and transport callbacks run. A suspended _connect
\* keeps the connector referenced while the loop can still resume it.
Drop ==
    /\ ~garbage
    /\ pending = <<>> \/ loop_closed
    /\ garbage' = TRUE
    /\ last' = Rep("drop")
    /\ UNCHANGED <<ended, closed, pool, acquired, connection_timeout, conns, eps,
                   pending, loop_closed, connector_finalized, warnings,
                   exc_handler, releaseLog>>
    /\ UNCHANGED <<udp_vars, codec>>

\* A connection the connector holds in acquired is referenced by it.
Held(c) == \E k \in Keys : c \in acquired[k]

\* Connection.__del__: the connection is finalized, either unreferenced or as
\* part of the garbage (in any order with the connector's finalizer).
ConnectionDel(c) ==
    /\ Live(c)
    /\ garbage \/ ~Held(c)
    /\ LET r == connection_del(closed, loop_closed, acquired, eps, conns, c)
           subject == <<"Unclosed connection", c>>
       IN /\ acquired' = r.acquired
          /\ eps' = r.eps
          /\ conns' = [conns EXCEPT ![c].finalized = TRUE]
          /\ warnings' = IF r.diag THEN warnings \cup {subject} ELSE warnings
          /\ exc_handler' = IF r.diag THEN exc_handler \cup {subject} ELSE exc_handler
          /\ last' = [Rep("Connection.__del__") EXCEPT
                         !.c = c,
                         !.result = IF r.error = "none" THEN "returned" ELSE r.error,
                         !.called = r.called, !.diag = r.diag]
    /\ UNCHANGED <<ended, closed, pool, connection_timeout, pending, loop_closed,
                   garbage, connector_finalized, releaseLog>>
    /\ UNCHANGED <<udp_vars, codec>>

\* BaseConnector.__del__: the connector is finalized as part of the garbage.
ConnectorDel ==
    /\ garbage
    /\ ~connector_finalized
    /\ \E order \in Orders(DOMAIN pool) :
         LET r == connector_del(closed, loop_closed, pool, acquired, eps, conns, order)
             subject == <<"Unclosed connector", 0>>
         IN /\ closed' = r.closed
            /\ pool' = r.pool
            /\ acquired' = r.acquired
            /\ eps' = r.eps
            /\ conns' = r.conns
            /\ warnings' = IF r.diag THEN warnings \cup {subject} ELSE warnings
            /\ exc_handler' = IF r.diag THEN exc_handler \cup {subject} ELSE exc_handler
            /\ releaseLog' = IF r.closed # closed THEN [k \in Keys |-> <<>>] ELSE releaseLog
            /\ last' = [Rep("Connector.__del__") EXCEPT
                           !.result = IF r.error = "none" THEN "returned" ELSE r.error,
                           !.called = (r.closed # closed), !.diag = r.diag]
    /\ connector_finalized' = TRUE
    /\ UNCHANGED <<ended, connection_timeout, pending, loop_closed, garbage>>
    /\ UNCHANGED <<udp_vars, codec>>

Next ==
    \/ \E key \in Keys : Connect(key)
    \/ \E key \in Keys : Listen(key)
    \/ \E i \in DOMAIN pending : EndpointMade(i)
    \/ \E i \in DOMAIN pending : ConnectDone(i)
    \/ \E i \in DOMAIN pending : ConnectTimedOut(i)
    \/ \E i \in DOMAIN pending : ConnectOSError(i)
    \/ \E c \in DOMAIN conns : ConnectionClose(c)
    \/ \E c \in DOMAIN conns : ConnectionRelease(c)
    \/ ConnectorClose
    \/ \E e \in DOMAIN eps : ConnectionLost(e)
    \/ LoopClose
    \/ Drop
    \/ \E c \in DOMAIN conns : ConnectionDel(c)
    \/ ConnectorDel

Spec == Init /\ [][Next]_vars

----------------------------------------------------------------------------
\* The claims

ConnectOps == {"connect", "listen"}

\* The connection a step of connect/listen handed out or returned.
Returned == conns'[last'.c]

\* C1: on an open connector, a connect/listen for key k that finds endpoints
\* released under k and not yet reused hands out the most recently released
\* one and creates no endpoint; one that finds none calls create_endpoint.
C1_LifoReuse ==
    [][(~closed /\ last'.op \in ConnectOps) =>
          \/ /\ last'.result = "Connection" /\ ~last'.called
             /\ LET log == releaseLog[Returned.key]
                IN /\ log # <<>>
                   /\ Returned.protocol = log[Len(log)]
             /\ eps' = eps
             /\ pending' = pending
          \/ /\ last'.result = "create_endpoint"
             /\ Len(pending') = Len(pending) + 1
             /\ releaseLog[pending'[Len(pending')].key] = <<>>
          \/ /\ last'.called /\ last'.result # "create_endpoint"
             /\ Len(pending') = Len(pending) - 1
      ]_vars

\* C1 witness: a connect/listen was served from a pool entry holding two
\* released endpoints, and the older one is still pooled.
C1_Witness ==
    /\ ~closed
    /\ last.op \in ConnectOps /\ last.result = "Connection" /\ ~last.called
    /\ LET key == conns[last.c].key
       IN /\ key \in DOMAIN pool
          /\ pool[key] # <<>>
          /\ conns[last.c].protocol \notin Range(pool[key])

AllConns == DOMAIN conns

AllEps == DOMAIN eps

\* C2 (as stated, for a running loop): after the first Connector.close() every
\* connection acquired so far reports closed, and the connector is closed.
C2_CloseClosesAcquired ==
    (last.op = "Connector.close" /\ last.called /\ ~loop_closed) =>
        /\ closed
        /\ \A c \in AllConns : ConnClosed(conns, eps, c)

\* C3 (as stated, for a running loop and no connect/listen in flight): once
\* Connector.close() has done its closing, no endpoint is left with an open
\* transport. (BaseProtocol.close drops its transport as it closes it, so no
\* transport is closed twice.)
C3_CloseIsBackstop ==
    (last.op = "Connector.close" /\ last.called /\ ~loop_closed /\ pending = <<>>) =>
        \A e \in AllEps : ~eps[e].transport

\* How many times endpoint e occurs in pool P, and how many connections of C
\* hold it as their protocol.
RECURSIVE CountIn(_, _)
CountIn(seq, e) ==
    IF seq = <<>> THEN 0
    ELSE (IF Head(seq) = e THEN 1 ELSE 0) + CountIn(Tail(seq), e)

RECURSIVE PooledCount(_, _, _)
PooledCount(P, ks, e) ==
    IF ks = {} THEN 0
    ELSE LET k == CHOOSE x \in ks : TRUE
         IN CountIn(P[k], e) + PooledCount(P, ks \ {k}, e)

Holders(C, e) == {c \in DOMAIN C : C[c].protocol = e}

Uses(P, C, e) == PooledCount(P, DOMAIN P, e) + Cardinality(Holders(C, e))

\* C4: no endpoint is held by two connections, or held by a connection while
\* pooled, or pooled twice; and whenever an endpoint enters pool, a connection
\* that held it gives it up in the same step.
C4_NeverShared ==
    /\ [](\A e \in AllEps : Uses(pool, conns, e) <= 1)
    /\ [][\A e \in AllEps :
            PooledCount(pool', DOMAIN pool', e) > PooledCount(pool, DOMAIN pool, e) =>
                \E c \in Holders(conns, e) : conns'[c].protocol = None
         ]_vars

\* C4 witness: a release has just put a connection's endpoint into pool while
\* another connection is still attached to its own endpoint.
C4_Witness ==
    /\ last.op = "Connection.release" /\ last.called /\ ~closed
    /\ conns[last.c].protocol = None
    /\ conns[last.c].key \in DOMAIN pool
    /\ \E c \in AllConns : ~ConnClosed(conns, eps, c)

ConnectorOps ==
    ConnectOps \cup {"Connection.close", "Connection.release", "Connector.close"}

\* C5 (as stated): a connect, listen, close_connection, release_connection
\* (through Connection.close/release) or close on a closed connector leaves
\* pool and acquired empty and starts no endpoint creation.
C5_ClosedIsInert ==
    [][(closed /\ last'.op \in ConnectorOps /\ last'.result \in {"returned", "create_endpoint"}) =>
          /\ pool' = EmptyDict
          /\ acquired' = EmptyDefaultDict
          /\ eps' = eps
          /\ pending' = pending
      ]_vars

\* C6: a connect/listen whose endpoint creation times out raises TimeoutError
\* from asyncio.TimeoutError, one whose creation hits an OS error raises
\* ConnectionError from that OSError; no step of such a call (its start, the
\* endpoint coming into being, its failure) changes pool or acquired or spawns
\* a connection, and the endpoint it may have built is in neither.
C6_FailedConnectLeavesNoTrace ==
    [][/\ \A i \in DOMAIN pending :
            /\ ConnectTimedOut(i) =>
                 last'.result = "TimeoutError" /\ last'.cause = "asyncio.TimeoutError"
            /\ ConnectOSError(i) =>
                 last'.result = "ConnectionError" /\ last'.cause = "OSError"
            /\ (ConnectTimedOut(i) \/ ConnectOSError(i)) =>
                 /\ pool' = pool /\ acquired' = acquired /\ conns' = conns
                 /\ pending[i].protocol # None =>
                        Uses(pool', conns', pending[i].protocol) = 0
                 /\ \A k \in Keys : acquired'[k] \subseteq DOMAIN conns'
       /\ (last'.op \in ConnectOps /\ last'.result = "create_endpoint") =>
            pool' = pool /\ acquired' = acquired /\ conns' = conns
       /\ last'.op = "create_endpoint" =>
            pool' = pool /\ acquired' = acquired /\ conns' = conns
      ]_vars

\* C6 witness: a connect/listen has just raised ConnectionError from OSError.
C6_Witness ==
    /\ last.op \in ConnectOps
    /\ last.result = "ConnectionError" /\ last.cause = "OSError"

C8_SecondCallIsNoOp ==
    [][(last'.op \in {"Connection.close", "Connection.release"} /\ last'.c \in ended) =>
          /\ ~last'.called
          /\ last'.result = "returned"
          /\ UNCHANGED <<closed, pool, acquired, eps, conns>>
      ]_vars

\* C8 witness: close() after release(): the only connection ever spawned was
\* released, its endpoint sits attached in pool, and close() has just returned
\* on it.
C8_Witness ==
    /\ last.op = "Connection.close" /\ last.c = 1 /\ ~last.called
    /\ Len(conns) = 1 /\ 1 \in ended
    /\ ~closed
    /\ conns[1].key \in DOMAIN pool
    /\ pool[conns[1].key] = <<1>> /\ eps[1].transport

\* C9: a connection finalized while attached, with its connector open and the
\* loop running, is reported as 'Unclosed connection' (warning and exception
\* handler), is no longer in acquired, and its endpoint is closed.
C9_LeakIsReported ==
    [][(/\ last'.op = "Connection.__del__"
        /\ ~ConnClosed(conns, eps, last'.c)
        /\ ~closed /\ ~loop_closed) =>
          LET c == last'.c
          IN /\ last'.result = "returned"
             /\ <<"Unclosed connection", c>> \in exc_handler' \ exc_handler
             /\ <<"Unclosed connection", c>> \in warnings'
             /\ \A k \in Keys : c \notin acquired'[k]
             /\ ~eps'[conns[c].protocol].transport
      ]_vars

\* C9 witness: the finalizer of a connection the connector still held in
\* acquired has just reported it.
C9_Witness ==
    /\ last.op = "Connection.__del__" /\ last.diag /\ last.called
    /\ ~closed /\ ~loop_closed
    /\ <<"Unclosed connection", last.c>> \in exc_handler
    /\ ~connector_finalized

\* C10: no finalizer raises, whatever the state it runs in, and a finalizer
\* that finds its object unclosed and goes on to close it (the connector's with
\* a non-empty pool, the connection's with the loop open) emits its diagnostic.
C10_FinalizersNeverRaise ==
    last.op \in {"Connector.__del__", "Connection.__del__"} =>
        /\ last.result = "returned"
        /\ last.called => last.diag

----------------------------------------------------------------------------
\* udp.Protocol and Connection.recv / Connection.send

MaxDatagrams == 2
MaxGetters == 1

Families == {"AF_INET", "AF_INET6"}

Payloads == {"ping", "pong"}

\* The address socket.recvfrom reports for a datagram: (host, port) on an
\* AF_INET socket, (host, port, flowinfo, scope_id) on an AF_INET6 socket.
PeerAddrs(family) ==
    IF family = "AF_INET" THEN {<<"127.0.0.1", 7>>} ELSE {<<"::1", 7, 0, 0>>}

MaxPort == 65535

\* Address(*addr): Address.__new__(cls, ip, port) takes exactly two values.
Address(addr) ==
    IF Len(addr) # 2
    THEN [error |-> "TypeError", value |-> None]
    ELSE IF ~(0 <= addr[2] /\ addr[2] <= MaxPort)
    THEN [error |-> "ValueError", value |-> None]
    ELSE [error |-> "none", value |-> [ip |-> addr[1], port |-> addr[2]]]

\* Protocol.datagram_received
datagram_received(E, e, data, addr) ==
    LET a == Address(addr)
    IN IF a.error # "none"
       THEN [eps |-> E, error |-> a.error]
       ELSE [eps |-> [E EXCEPT ![e].buffer = Append(@, <<data, a.value>>)],
             error |-> "none"]

\* Protocol.recv, that is asyncio.Queue.get: the head of the buffer, or the
\* coroutine waits among the queue's getters.
protocol_recv(E, e) ==
    IF E[e].buffer = <<>>
    THEN [eps |-> [E EXCEPT ![e].getters = @ + 1], result |-> "suspended",
          value |-> None, called |-> TRUE]
    ELSE [eps |-> [E EXCEPT ![e].buffer = Tail(@)], result |-> "returned",
          value |-> Head(E[e].buffer), called |-> TRUE]

\* Protocol.send: self._transport.sendto(data, remote_address)
protocol_send(E, e) ==
    [eps |-> E, result |-> IF E[e].transport THEN "returned" ELSE "AttributeError",
     value |-> None, called |-> TRUE]

\* Connection.recv without its `if self.closed` guard.
connection_recv_unguarded(E, C, c) ==
    IF C[c].protocol = None
    THEN [eps |-> E, result |-> "AttributeError", value |-> None, called |-> FALSE]
    ELSE protocol_recv(E, C[c].protocol)

\* Connection.recv
connection_recv(E, C, c) ==
    IF ConnClosed(C, E, c)
    THEN [eps |-> E, result |-> "ConnectionError", value |-> None, called |-> FALSE]
    ELSE protocol_recv(E, C[c].protocol)

\* Connection.send
connection_send(E, C, c) ==
    IF ConnClosed(C, E, c)
    THEN [eps |-> E, result |-> "ConnectionError", value |-> None, called |-> FALSE]
    ELSE protocol_send(E, C[c].protocol)

\* connect() on a connector whose create_endpoint hands back a protocol no
\* transport has called connection_made on yet (the connection starts closed).
\* One endpoint is followed: each protocol has a buffer of its own.
ConnectDetached(key, family) ==
    /\ Running
    /\ pending = <<>>
    /\ eps = <<>>
    /\ LET e == Len(eps) + 1
           c == Len(conns) + 1
       IN /\ eps' = Append(eps, NewProtocol)
          /\ sockets' = DictSet(sockets, e, [family |-> family, made |-> FALSE])
          /\ conns' = Append(conns, spawn_connection(key, e))
          /\ acquired' = connect_result(acquired, key, c, "none").acquired
          /\ last' = [Rep("connect") EXCEPT !.c = c, !.result = "Connection",
                                            !.called = TRUE]
    /\ UNCHANGED <<closed, pool, connection_timeout, pending, loop_closed, garbage,
                   connector_finalized, warnings, exc_handler, releaseLog, ended,
                   delivered, received, codec,
                   network>>

\* The transport of endpoint e comes up: protocol.connection_made(transport).
TransportMade(e) ==
    /\ ~loop_closed
    /\ e \in DOMAIN sockets
    /\ ~sockets[e].made
    /\ eps' = connection_made(eps, e)
    /\ sockets' = [sockets EXCEPT ![e].made = TRUE]
    /\ last' = Rep("connection_made")
    /\ UNCHANGED <<closed, pool, acquired, connection_timeout, conns, pending,
                   loop_closed, garbage, connector_finalized, warnings,
                   exc_handler, releaseLog, ended, delivered, received, codec,
                   network>>

\* The transport of endpoint e read a datagram from its socket and calls
\* protocol.datagram_received(data, addr).
DatagramReceived(e, data) ==
    /\ ~loop_closed
    /\ e \in DOMAIN sockets
    /\ eps[e].transport
    /\ Len(delivered) < MaxDatagrams
    /\ \E addr \in PeerAddrs(sockets[e].family) :
         LET r == datagram_received(eps, e, data, addr)
         IN /\ eps' = r.eps
            /\ delivered' = Append(delivered, <<e, data, addr>>)
            /\ last' = [Rep("datagram_received") EXCEPT
                           !.result = IF r.error = "none" THEN "returned" ELSE r.error]
    /\ UNCHANGED <<closed, pool, acquired, connection_timeout, conns, pending,
                   loop_closed, garbage, connector_finalized, warnings,
                   exc_handler, releaseLog, ended, sockets, received, codec,
                   network>>

\* await connection.recv()
Recv(c) ==
    /\ Running
    /\ Live(c)
    /\ LET r == connection_recv(eps, conns, c)
       IN /\ r.result = "suspended" => eps[conns[c].protocol].getters < MaxGetters
          /\ eps' = r.eps
          /\ received' = IF r.result = "returned"
                         THEN Append(received, <<conns[c].protocol, r.value>>)
                         ELSE received
          /\ last' = [Rep("Connection.recv") EXCEPT !.c = c, !.result = r.result,
                                                    !.called = r.called]
    /\ UNCHANGED <<closed, pool, acquired, connection_timeout, conns, pending,
                   loop_closed, garbage, connector_finalized, warnings,
                   exc_handler, releaseLog, ended, sockets, delivered, codec,
                   network>>

\* A recv coroutine waiting in Queue.get of endpoint e is resumed after a
\* put_nowait and takes the head of the buffer.
RecvResume(e) ==
    /\ ~loop_closed
    /\ e \in DOMAIN eps
    /\ eps[e].getters > 0
    /\ eps[e].buffer # <<>>
    /\ eps' = [eps EXCEPT ![e].getters = @ - 1, ![e].buffer = Tail(@)]
    /\ received' = Append(received, <<e, Head(eps[e].buffer)>>)
    /\ last' = [Rep("Connection.recv resumed") EXCEPT !.called = TRUE]
    /\ UNCHANGED <<closed, pool, acquired, connection_timeout, conns, pending,
                   loop_closed, garbage, connector_finalized, warnings,
                   exc_handler, releaseLog, ended, sockets, delivered, codec,
                   network>>

\* await connection.send(data, remote_address)
Send(c) ==
    /\ Running
    /\ Live(c)
    /\ LET r == connection_send(eps, conns, c)
       IN /\ eps' = r.eps
          /\ last' = [Rep("Connection.send") EXCEPT !.c = c, !.result = r.result,
                                                    !.called = r.called]
    /\ UNCHANGED <<closed, pool, acquired, connection_timeout, conns, pending,
                   loop_closed, garbage, connector_finalized, warnings,
                   exc_handler, releaseLog, ended, udp_vars, codec>>

UdpNext ==
    \/ \E key \in Keys, family \in Families : ConnectDetached(key, family)
    \/ \E e \in DOMAIN eps : TransportMade(e)
    \/ \E e \in DOMAIN eps, data \in Payloads : DatagramReceived(e, data)
    \/ \E c \in DOMAIN conns : Recv(c)
    \/ \E e \in DOMAIN eps : RecvResume(e)
    \/ \E c \in DOMAIN conns : Send(c)
    \/ \E c \in DOMAIN conns : ConnectionClose(c)
    \/ \E c \in DOMAIN conns : ConnectionRelease(c)
    \/ \E e \in DOMAIN eps : ConnectionLost(e)

\* The connector as constructed by the tests: no connection timeout.
UdpInit == Init /\ connection_timeout = 0

UdpSpec == UdpInit /\ [][UdpNext]_vars

\* C11: recv and send on a closed connection (its protocol never saw
\* connection_made, or close() or release() returned, or the transport
\* reported connection_lost) raise ConnectionError without reaching the
\* protocol's recv/send and without taking a datagram out of the buffer.
C11_ClosedConnectionRefusesIO ==
    [][(/\ last'.op \in {"Connection.recv", "Connection.send"}
        /\ ConnClosed(conns, eps, last'.c)) =>
          /\ last'.result = "ConnectionError"
          /\ ~last'.called
          /\ eps' = eps
          /\ received' = received
      ]_vars

\* C11 witness: recv has just raised ConnectionError on a connection that was
\* neither closed nor released but whose transport was lost, while a datagram
\* is still queued in its protocol's buffer.
C11_Witness ==
    /\ last.op = "Connection.recv" /\ last.result = "ConnectionError"
    /\ last.c \notin ended
    /\ conns[last.c].protocol # None
    /\ sockets[conns[last.c].protocol].made
    /\ ~eps[conns[last.c].protocol].transport
    /\ eps[conns[last.c].protocol].buffer # <<>>

\* The datagrams the transport delivered to endpoint e, in callback order, as
\* the (payload, address) pairs recv is to return.
DeliveredTo(e) ==
    LET mine == SelectSeq(delivered, LAMBDA d : d[1] = e)
    IN [i \in 1..Len(mine) |->
           <<mine[i][2], [ip |-> mine[i][3][1], port |-> mine[i][3][2]]>>]

\* The pairs the recv calls of endpoint e returned, in order of return.
ReceivedFrom(e) ==
    LET mine == SelectSeq(received, LAMBDA r : r[1] = e)
    IN [i \in 1..Len(mine) |-> mine[i][2]]

\* C12: within one endpoint, what recv has returned so far followed by what is
\* still queued is exactly what the transport delivered, in the same order:
\* the returned pairs are a prefix of the delivered ones, and no datagram is
\* lost, duplicated or reordered.
C12_RecvIsFifo ==
    \A e \in DOMAIN eps :
        ReceivedFrom(e) \o eps[e].buffer = DeliveredTo(e)

----------------------------------------------------------------------------
\* messages.protocol_options: the wire codec of the HANDSHAKE options.
\* Bytes are sequences of 0..255; an offset counts the bytes before it.

BYTE == 1
WORD == 2
DWORD == 4
QWORD == 8

\* An optional value: Python's None, or the value itself.
Nothing == <<>>

Some(v) == <<v>>

\* data[a:b]
Slice(data, a, b) ==
    LET hi == IF b < Len(data) THEN b ELSE Len(data)
    IN IF a >= hi THEN <<>> ELSE SubSeq(data, a + 1, hi)

\* int.from_bytes(b, 'big')
RECURSIVE from_bytes(_)
from_bytes(b) ==
    IF b = <<>> THEN 0
    ELSE from_bytes(SubSeq(b, 1, Len(b) - 1)) * 256 + b[Len(b)]

RECURSIVE ShiftBytes(_, _)
ShiftBytes(v, n) == IF n = 0 THEN v ELSE ShiftBytes(v \div 256, n - 1)

RECURSIVE BigEndian(_, _)
BigEndian(v, n) ==
    IF n = 0 THEN <<>> ELSE Append(BigEndian(v \div 256, n - 1), v % 256)

\* int.to_bytes(n, 'big'): OverflowError for a negative value or one too wide.
to_bytes(v, n) ==
    IF v < 0 \/ ShiftBytes(v, n) # 0
    THEN [error |-> "OverflowError", value |-> Nothing]
    ELSE [error |-> "none", value |-> Some(BigEndian(v, n))]

\* decode_value filling the bytes the input lacks with zeros.
decode_value_zero_padded(data, offset, length) ==
    LET value == Slice(data, offset, offset + length)
    IN [error |-> "none",
        value |-> value \o [i \in 1..(length - Len(value)) |-> 0],
        offset |-> offset + length]

\* decode_value without its length check: the bytes the slice lacks read as FF,
\* the end option, and the offset moves on by the full length.
decode_value_past_end(data, offset, length) ==
    LET value == Slice(data, offset, offset + length)
    IN [error |-> "none",
        value |-> value \o [i \in 1..(length - Len(value)) |-> 255],
        offset |-> offset + length]

\* decode_value
decode_value(data, offset, length) ==
    LET value == Slice(data, offset, offset + length)
    IN IF Len(value) # length
       THEN [error |-> "ValueError('Expected read')", value |-> <<>>, offset |-> offset]
       ELSE [error |-> "none", value |-> value, offset |-> offset + length]

\* ProtocolOptionsId
version == 0
minimum_version == 1
swarm_identifier == 2
content_integrity_protection_method == 3
merkle_hash_tree_function == 4
live_signature_algorithm == 5
chunk_addressing_method == 6
live_discard_window == 7
supported_messages == 8
chunk_size == 9
end_option == 255

ProtocolOptionsId == (version..chunk_size) \cup {end_option}

\* The other enumerations, by value.

Version == {1}

ContentIntegrityProtectionMethod == 0..3

MerkleHashTreeFunction == 0..4

LiveSignatureAlgorithm == {1, 2, 3, 5, 6, 7, 8, 10, 12, 13, 253, 254}

ChunkAddressingMethod == 0..4

\* LiveDiscardWindowSize with every member DWORD.
LiveDiscardWindowSize_all_dword(method) == DWORD

\* LiveDiscardWindowSize[method.name].value
LiveDiscardWindowSize(method) == IF method \in {0, 2} THEN DWORD ELSE QWORD

\* list(MessageType): HANDSHAKE = 0 .. PEX_REScert = 13, in declaration order
MessageType == [i \in 1..14 |-> i - 1]

AllMessageTypes == {MessageType[i] : i \in DOMAIN MessageType}

\* ProtocolOptions(): every field None
NoOptions == [code \in version..chunk_size |-> Nothing]

\* One byte read and looked up in an IntEnum: decode_version,
\* decode_minimum_version, decode_content_integrity_protection_method,
\* decode_merkle_hash_tree_function, decode_live_signature_algorithm,
\* decode_chunk_addressing_method
decode_enum(enum, data, offset) ==
    LET r == decode_value(data, offset, BYTE)
    IN IF r.error # "none" THEN r
       ELSE IF r.value[1] \notin enum
       THEN [error |-> "ValueError('not a valid enum value')", value |-> <<>>,
             offset |-> offset]
       ELSE [error |-> "none", value |-> r.value[1], offset |-> r.offset]

\* decode_swarm_id
decode_swarm_id(data, offset) ==
    LET l == decode_value(data, offset, WORD)
    IN IF l.error # "none" THEN l
       ELSE decode_value(data, l.offset, from_bytes(l.value))

\* encode_swarm_id
encode_swarm_id(swarm_id) ==
    LET l == to_bytes(Len(swarm_id), WORD)
    IN IF l.error # "none" THEN l
       ELSE [error |-> "none", value |-> Some(l.value[1] \o swarm_id)]

\* decode_live_discard_window reading a 32-bit window when no method is known.
decode_live_discard_window_lenient(data, offset, options) ==
    LET method == options[chunk_addressing_method]
        window_size == IF method = Nothing THEN DWORD
                       ELSE LiveDiscardWindowSize(method[1])
        r == decode_value(data, offset, window_size)
    IN IF r.error # "none" THEN r
       ELSE [error |-> "none", value |-> from_bytes(r.value), offset |-> r.offset]

\* decode_live_discard_window: method is None when no code 6 was decoded, and
\* method.name then raises AttributeError.
decode_live_discard_window(data, offset, options) ==
    LET method == options[chunk_addressing_method]
    IN IF method = Nothing
       THEN [error |-> "AttributeError", value |-> <<>>, offset |-> offset]
       ELSE LET r == decode_value(data, offset, LiveDiscardWindowSize(method[1]))
            IN IF r.error # "none" THEN r
               ELSE [error |-> "none", value |-> from_bytes(r.value),
                     offset |-> r.offset]

\* encode_live_discard_window emitting a 32-bit window when no method is set.
encode_live_discard_window_default_width(window, options) ==
    LET method == options[chunk_addressing_method]
    IN IF method = Nothing
       THEN to_bytes(window, DWORD)
       ELSE to_bytes(window, LiveDiscardWindowSize(method[1]))

\* encode_live_discard_window: None (nothing to emit) without a method
encode_live_discard_window(window, options) ==
    LET method == options[chunk_addressing_method]
    IN IF method = Nothing
       THEN [error |-> "none", value |-> Nothing]
       ELSE to_bytes(window, LiveDiscardWindowSize(method[1]))

\* decode_chunk_size
decode_chunk_size(data, offset) ==
    LET r == decode_value(data, offset, DWORD)
    IN IF r.error # "none" THEN r
       ELSE [error |-> "none", value |-> from_bytes(r.value), offset |-> r.offset]

\* bin(value)[2:]: the binary digits of value, most significant first,
\* without leading zeros ("0" for zero).
RECURSIVE bin(_)
bin(value) ==
    IF value < 2 THEN <<value>> ELSE Append(bin(value \div 2), value % 2)

\* The types picked by one bitmap byte: zip(bits, message_types) pairs the
\* i-th digit with the i-th type and stops at the shorter of the two.
ZipPick(bits, message_types) ==
    {message_types[i] : i \in {j \in 1..Len(bits) :
                                   j <= Len(message_types) /\ bits[j] = 1}}

\* The loop of decode_supported_messages from byte n on.
RECURSIVE decode_bitmap(_, _, _, _, _)
decode_bitmap(data, offset, n, message_types_length, supported) ==
    IF n >= message_types_length
    THEN [error |-> "none", value |-> supported, offset |-> offset]
    ELSE LET r == decode_value(data, offset, BYTE)
         IN IF r.error # "none" THEN r
            ELSE decode_bitmap(data, r.offset, n + 1, message_types_length,
                     supported \cup ZipPick(bin(from_bytes(r.value)),
                                            Slice(MessageType, n * 8, n * 8 + 8)))

\* decode_supported_messages
decode_supported_messages(data, offset) ==
    LET l == decode_value(data, offset, BYTE)
    IN IF l.error # "none" THEN l
       ELSE decode_bitmap(data, l.offset, 0, from_bytes(l.value), {})

\* int(''.join(map(str, mask)), 2)
RECURSIVE BitsToInt(_)
BitsToInt(mask) ==
    IF mask = <<>> THEN 0
    ELSE 2 * BitsToInt(SubSeq(mask, 1, Len(mask) - 1)) + mask[Len(mask)]

\* The mask of encode_supported_messages, padded to whole bytes.
Mask(messages) ==
    LET mask == [i \in 1..Len(MessageType) |->
                    IF MessageType[i] \in messages THEN 1 ELSE 0]
        pad == IF Len(mask) % 8 = 0 THEN 0 ELSE 8 - (Len(mask) % 8)
    IN mask \o [i \in 1..pad |-> 0]

\* encode_supported_messages marking type X at bit X counted from the least
\* significant end of its byte.
encode_supported_messages_lsb(messages) ==
    LET mask == Mask(messages)
        flip == [i \in 1..Len(mask) |-> mask[8 * ((i - 1) \div 8) + 8 - ((i - 1) % 8)]]
        bitmap == to_bytes(BitsToInt(flip), Len(mask) \div 8)
        length == to_bytes(Len(bitmap.value[1]), BYTE)
    IN [error |-> "none", value |-> Some(length.value[1] \o bitmap.value[1])]

\* encode_supported_messages
encode_supported_messages(messages) ==
    LET mask == Mask(messages)
        bitmap == to_bytes(BitsToInt(mask), Len(mask) \div 8)
        length == to_bytes(Len(bitmap.value[1]), BYTE)
    IN [error |-> "none", value |-> Some(length.value[1] \o bitmap.value[1])]

\* decode_handlers()[option](data, offset, options)
decode_handlers(option, data, offset, options) ==
    CASE option = version -> decode_enum(Version, data, offset)
      [] option = minimum_version -> decode_enum(Version, data, offset)
      [] option = swarm_identifier -> decode_swarm_id(data, offset)
      [] option = content_integrity_protection_method ->
             decode_enum(ContentIntegrityProtectionMethod, data, offset)
      [] option = merkle_hash_tree_function ->
             decode_enum(MerkleHashTreeFunction, data, offset)
      [] option = live_signature_algorithm ->
             decode_enum(LiveSignatureAlgorithm, data, offset)
      [] option = chunk_addressing_method ->
             decode_enum(ChunkAddressingMethod, data, offset)
      [] option = live_discard_window ->
             decode_live_discard_window(data, offset, options)
      [] option = supported_messages -> decode_supported_messages(data, offset)
      [] option = chunk_size -> decode_chunk_size(data, offset)

\* encode_handlers()[option_id](value, options)
encode_handlers(option, value, options) ==
    CASE option = swarm_identifier -> encode_swarm_id(value)
      [] option = live_discard_window -> encode_live_discard_window(value, options)
      [] option = supported_messages -> encode_supported_messages(value)
      [] option = chunk_size -> to_bytes(value, DWORD)
      [] OTHER -> to_bytes(value, BYTE)

\* `if options[option.name]:` - Python truth: None, 0, b'' and set() are false
IsTruthy(option, field) ==
    /\ field # Nothing
    /\ CASE option = swarm_identifier -> field[1] # <<>>
         [] option = supported_messages -> field[1] # {}
         [] OTHER -> field[1] # 0

\* `options[option.name] is not None`
IsNotNone(option, field) == field # Nothing

\* decode refusing an option whose code is below one it has already stored.
RECURSIVE decode_options_ascending(_, _, _)
decode_options_ascending(data, offset, options) ==
    LET id == decode_value(data, offset, BYTE)
        failed(error) == [error |-> error, options |-> NoOptions, rest |-> <<>>]
    IN IF id.error # "none" THEN failed(id.error)
       ELSE LET option == id.value[1]
            IN IF option \notin ProtocolOptionsId
               THEN failed("ValueError('not a valid ProtocolOptionsId')")
               ELSE IF option = end_option
               THEN [error |-> "none", options |-> options,
                     rest |-> Slice(data, id.offset, Len(data))]
               ELSE IF \E later \in option..chunk_size : options[later] # Nothing
               THEN failed("ValueError('duplicate option')")
               ELSE LET h == decode_handlers(option, data, id.offset, options)
                    IN IF h.error # "none" THEN failed(h.error)
                       ELSE decode_options_ascending(data, h.offset,
                                [options EXCEPT ![option] = Some(h.value)])

\* The `while True` loop of decode, from offset on.
RECURSIVE decode_options(_, _, _)
decode_options(data, offset, options) ==
    LET id == decode_value(data, offset, BYTE)
        failed(error) == [error |-> error, options |-> NoOptions, rest |-> <<>>]
    IN IF id.error # "none" THEN failed(id.error)
       ELSE LET option == id.value[1]
            IN IF option \notin ProtocolOptionsId
               THEN failed("ValueError('not a valid ProtocolOptionsId')")
               ELSE IF option = end_option
               THEN [error |-> "none", options |-> options,
                     rest |-> Slice(data, id.offset, Len(data))]
               ELSE IF IsNotNone(option, options[option])
               THEN failed("ValueError('duplicate option')")
               ELSE LET h == decode_handlers(option, data, id.offset, options)
                    IN IF h.error # "none" THEN failed(h.error)
                       ELSE decode_options(data, h.offset,
                                [options EXCEPT ![option] = Some(h.value)])

\* The `while True` loop of decode, from offset on, as the offsets it holds at
\* the end of each iteration it completes: after each stored option, and after
\* the end option if the loop reaches one. An iteration that raises adds none.
RECURSIVE decode_offsets(_, _, _)
decode_offsets(data, offset, options) ==
    LET id == decode_value(data, offset, BYTE)
    IN IF id.error # "none" THEN <<>>
       ELSE LET option == id.value[1]
            IN IF option \notin ProtocolOptionsId THEN <<>>
               ELSE IF option = end_option THEN <<id.offset>>
               ELSE IF IsNotNone(option, options[option]) THEN <<>>
               ELSE LET h == decode_handlers(option, data, id.offset, options)
                    IN IF h.error # "none" THEN <<>>
                       ELSE <<h.offset>> \o
                            decode_offsets(data, h.offset,
                                [options EXCEPT ![option] = Some(h.value)])

\* protocol_options.decode
protocol_options_decode(data) == decode_options(data, 0, NoOptions)

\* encode walking the option ids from the last one down to the first.
RECURSIVE encode_options_descending(_, _, _)
encode_options_descending(option_id, options, data) ==
    IF option_id > chunk_size
    THEN [error |-> "none", data |-> Append(data, end_option)]
    ELSE LET code == chunk_size + version - option_id
         IN IF options[code] = Nothing
            THEN encode_options_descending(option_id + 1, options, data)
            ELSE LET value == encode_handlers(code, options[code][1], options)
                 IN IF value.error # "none"
                    THEN [error |-> value.error, data |-> <<>>]
                    ELSE IF value.value = Nothing
                    THEN encode_options_descending(option_id + 1, options, data)
                    ELSE encode_options_descending(option_id + 1, options,
                             Append(data, code) \o value.value[1])

\* The `for option_id, value in zip(ProtocolOptionsId, options)` loop of
\* encode, from option_id on.
RECURSIVE encode_options(_, _, _)
encode_options(option_id, options, data) ==
    IF option_id > chunk_size
    THEN [error |-> "none", data |-> Append(data, end_option)]
    ELSE IF options[option_id] = Nothing
    THEN encode_options(option_id + 1, options, data)
    ELSE LET value == encode_handlers(option_id, options[option_id][1], options)
         IN IF value.error # "none"
            THEN [error |-> value.error, data |-> <<>>]
            ELSE IF value.value = Nothing
            THEN encode_options(option_id + 1, options, data)
            ELSE encode_options(option_id + 1, options,
                                Append(data, option_id) \o value.value[1])

\* protocol_options.encode
protocol_options_encode(options) == encode_options(version, options, <<>>)

----------------------------------------------------------------------------
\* Channel ids, messages and datagrams. A message is a record whose class
\* field names its Python class: "Handshake" (a namedtuple) or "Message" (a
\* subclass of the abstract base class Message).

\* ChannelID refusing only the inputs that are too long.
ChannelID_short_allowed(data) ==
    IF Len(data) > DWORD
    THEN [error |-> "ValueError('channel id must be 4 bytes sized')", value |-> <<>>]
    ELSE [error |-> "none", value |-> data]

\* ChannelID(data)
ChannelID(data) ==
    IF Len(data) # DWORD
    THEN [error |-> "ValueError('channel id must be 4 bytes sized')", value |-> <<>>]
    ELSE [error |-> "none", value |-> data]

ZeroChannelID == [i \in 1..DWORD |-> 0]

\* channel_ids.decode
channel_ids_decode(data) ==
    LET channel_id == ChannelID(Slice(data, 0, DWORD))
    IN [error |-> channel_id.error, value |-> channel_id.value,
        rest |-> Slice(data, DWORD, Len(data))]

\* channel_ids.encode
channel_ids_encode(channel_id) == ChannelID(channel_id)

HANDSHAKE == MessageType[1]

\* Handshake(type, source_channel_id, protocol_options)
Handshake(type, source_channel_id, protocol_options) ==
    IF type \notin AllMessageTypes
    THEN [error |-> "ValueError('not a valid MessageType')", value |-> <<>>]
    ELSE IF type # HANDSHAKE
    THEN [error |-> "ValueError('bad message type')", value |-> <<>>]
    ELSE LET channel_id == ChannelID(source_channel_id)
         IN IF channel_id.error # "none" THEN channel_id
            ELSE [error |-> "none",
                  value |-> [class |-> "Handshake", type |-> type,
                             source_channel_id |-> channel_id.value,
                             protocol_options |-> protocol_options]]

\* handshake.decode, from the decoded options on
handshake_decode_options(channel_id, options) ==
    IF options.error # "none"
    THEN [error |-> options.error, value |-> <<>>, rest |-> <<>>]
    ELSE [error |-> "none",
          value |-> Handshake(HANDSHAKE, channel_id.value, options.options).value,
          rest |-> options.rest]

\* handshake.decode
handshake_decode(data) ==
    LET channel_id == channel_ids_decode(data)
    IN IF channel_id.error # "none"
       THEN [error |-> channel_id.error, value |-> <<>>, rest |-> <<>>]
       ELSE handshake_decode_options(channel_id,
                                     protocol_options_decode(channel_id.rest))

\* handshake.encode
handshake_encode(message) ==
    LET channel_id == channel_ids_encode(message.source_channel_id)
        options == protocol_options_encode(message.protocol_options)
    IN IF channel_id.error # "none" THEN [error |-> channel_id.error, value |-> <<>>]
       ELSE IF options.error # "none" THEN [error |-> options.error, value |-> <<>>]
       ELSE [error |-> "none", value |-> channel_id.value \o options.data]

\* isinstance(message, Message)
IsMessage(message) == message.class = "Message"

\* decode_message_handlers(): the empty dict. A table maps a message type to
\* the name of its handler.
decode_message_handlers == [type \in {} |-> "handshake.decode"]

\* encode_message_handlers(): the empty dict. A table maps a message type to
\* its handler, a function from the message to the result.
encode_message_handlers == [type \in {} |-> [message \in {} |-> message]]

\* The call of a decode handler on the bytes after the tag: handshake.decode,
\* or the handler of a Message subclass without a body,
\* `lambda d: (Message(), d)`.
call_decode_handler(handler, data) ==
    IF handler = "handshake.decode" THEN handshake_decode(data)
    ELSE [error |-> "none", value |-> [class |-> "Message", type |-> MessageType[2]],
          rest |-> data]

\* decode_message: handlers[MessageType(data[0])](data[BYTE:]), the handlers
\* being the default ones when none (or an empty dict) are given
decode_message(data, handlers) ==
    LET table == IF DOMAIN handlers = {} THEN decode_message_handlers ELSE handlers
        failed(error) == [error |-> error, value |-> <<>>, rest |-> <<>>]
    IN IF data[1] \notin AllMessageTypes
       THEN failed("ValueError('not a valid MessageType')")
       ELSE IF data[1] \notin DOMAIN table THEN failed("KeyError")
       ELSE call_decode_handler(table[data[1]], Slice(data, BYTE, Len(data)))

RECURSIVE messages_decode(_, _, _)

\* The body of the `while data` loop once decode_message returned, keeping
\* only the first message.
messages_append_once(message, messages, handlers) ==
    IF message.error # "none" THEN [error |-> message.error, value |-> <<>>]
    ELSE [error |-> "none", value |-> Append(messages, message.value)]

\* The body of the `while data` loop once decode_message returned
messages_append(message, messages, handlers) ==
    IF message.error # "none" THEN [error |-> message.error, value |-> <<>>]
    ELSE messages_decode(message.rest, Append(messages, message.value), handlers)

\* messages.decode: `while data`
messages_decode(data, messages, handlers) ==
    IF data = <<>> THEN [error |-> "none", value |-> messages]
    ELSE messages_append(decode_message(data, handlers), messages, handlers)

\* encode_message: [message.type.value] then handlers[message.type](message)
encode_message(message) ==
    LET handlers == encode_message_handlers
    IN IF message.type \notin DOMAIN handlers
       THEN [error |-> "KeyError", value |-> <<>>]
       ELSE LET body == handlers[message.type][message]
            IN IF body.error # "none" THEN body
               ELSE [error |-> "none", value |-> <<message.type>> \o body.value]

\* messages.encode: `for message in messages`
RECURSIVE messages_encode(_, _)
messages_encode(messages, data) ==
    IF messages = <<>> THEN [error |-> "none", value |-> data]
    ELSE LET message == encode_message(Head(messages))
         IN IF message.error # "none" THEN message
            ELSE messages_encode(Tail(messages), data \o message.value)

\* Datagram(channel_id, messages); the assert runs unless Python was started
\* with -O (debug is __debug__).
Datagram(channel_id, messages, debug) ==
    IF debug /\ \E i \in DOMAIN messages : ~IsMessage(messages[i])
    THEN [error |-> "AssertionError", value |-> <<>>]
    ELSE LET id == ChannelID(channel_id)
         IN IF id.error # "none" THEN id
            ELSE [error |-> "none",
                  value |-> [channel_id |-> id.value, messages |-> messages]]

\* datagrams.decode, from the decoded messages on
datagrams_decode_messages(channel_id, messages, debug) ==
    IF messages.error # "none" THEN messages
    ELSE Datagram(channel_id, messages.value, debug)

\* datagrams.decode
datagrams_decode(data, debug) ==
    LET channel_id == channel_ids_decode(data)
    IN IF channel_id.error # "none"
       THEN [error |-> channel_id.error, value |-> <<>>]
       ELSE datagrams_decode_messages(channel_id.value,
                messages_decode(channel_id.rest, <<>>, decode_message_handlers), debug)

\* datagrams.encode
datagrams_encode(datagram) ==
    LET channel_id == channel_ids_encode(datagram.channel_id)
    IN IF channel_id.error # "none" THEN channel_id
       ELSE LET messages == messages_encode(datagram.messages, <<>>)
            IN IF messages.error # "none" THEN messages
               ELSE [error |-> "none", value |-> channel_id.value \o messages.value]

----------------------------------------------------------------------------
\* The codec calls a program makes, on arguments from bounded sets. A call
\* is made on a fresh argument, or on what the call before it returned; in
\* the latter case src remembers the argument of that earlier call.

MaxSwarmLen == 1

\* Sets of message types are taken with at most MaxMembers members, or with
\* at most MaxMembers of the types missing.
MaxMembers == 2

SwarmBytes == {end_option}

RECURSIVE SeqsUpTo(_, _)
SeqsUpTo(S, n) ==
    IF n = 0 THEN {<<>>}
    ELSE LET shorter == SeqsUpTo(S, n - 1)
         IN shorter \cup {Append(q, x) : q \in shorter, x \in S}

Optional(S) == {Nothing} \cup {Some(v) : v \in S}

\* The RFC 7574 example: every message type but ACK and the PEX ones, and the
\* payload 02 D9 F0 that denotes it.
RfcMessages == AllMessageTypes \ {2, 5, 6, 12, 13}

RfcPayload == <<2, 217, 240>>

\* Length byte and bitmap bytes as a peer may send them: no byte, bytes with
\* a zero most significant bit, bits at positions 14 and 15, a zero byte
\* before a set bit, and a byte past the last message type.
BitmapPayloads ==
    {<<0>>, <<1, 64>>, <<1, 128>>, <<1, 1>>, <<2, 0, 4>>, <<2, 255, 255>>,
     <<2, 64, 64>>, <<3, 128, 0, 255>>}

MessageSets ==
    LET few == {messages \in SUBSET AllMessageTypes : Cardinality(messages) <= MaxMembers}
    IN few \cup {AllMessageTypes \ messages : messages \in few} \cup {RfcMessages}

\* ProtocolOptions records: any subset of the ten fields, a few values each.
OptionsInputs ==
    {[code \in version..chunk_size |->
         CASE code = version -> f[1]
           [] code = minimum_version -> f[2]
           [] code = swarm_identifier -> f[3]
           [] code = content_integrity_protection_method -> f[4]
           [] code = merkle_hash_tree_function -> f[5]
           [] code = live_signature_algorithm -> f[6]
           [] code = chunk_addressing_method -> f[7]
           [] code = live_discard_window -> f[8]
           [] code = supported_messages -> f[9]
           [] code = chunk_size -> f[10]] :
     f \in Optional(Version) \X Optional(Version)
           \X Optional(SeqsUpTo(SwarmBytes, MaxSwarmLen))
           \X Optional({0}) \X Optional({0}) \X Optional({13})
           \X Optional({0, 1}) \X Optional({258})
           \X Optional({{}, {MessageType[2]}, RfcMessages})
           \X Optional({65536})}

\* Records that set a chunk addressing method and a live discard window and
\* nothing else: every method, windows of one, two and four significant bytes.
Windows == {0, 258, 16909060}

WindowInputs ==
    {[NoOptions EXCEPT ![chunk_addressing_method] = Some(method),
                       ![live_discard_window] = Some(window)] :
         method \in ChunkAddressingMethod, window \in Windows}

\* A record the constructor's documentation allows on the wire: a live
\* discard window only together with a chunk addressing method.
ValidOptions(options) ==
    options[live_discard_window] # Nothing => options[chunk_addressing_method] # Nothing

\* Options as they appear on the wire, one item each: the code byte and the
\* value bytes. The values include a zero enum value, an empty swarm
\* identifier, an empty message set and zero integers; the two addressing
\* methods are the 32-bit ones, the width of the window items.
WireItems ==
    {[code |-> version, value |-> <<1>>],
     [code |-> swarm_identifier, value |-> <<0, 0>>],
     [code |-> content_integrity_protection_method, value |-> <<0>>],
     [code |-> chunk_addressing_method, value |-> <<0>>],
     [code |-> chunk_addressing_method, value |-> <<2>>],
     [code |-> live_discard_window, value |-> <<0, 0, 0, 0>>],
     [code |-> live_discard_window, value |-> <<0, 0, 1, 2>>],
     [code |-> supported_messages, value |-> <<0>>],
     [code |-> chunk_size, value |-> <<0, 0, 0, 0>>]}

MaxItems == 3

\* The bytes of a list of items, closed by the end option or cut short.
RECURSIVE Wire(_, _)
Wire(items, terminated) ==
    IF items = <<>> THEN (IF terminated THEN <<end_option>> ELSE <<>>)
    ELSE <<Head(items).code>> \o Head(items).value \o Wire(Tail(items), terminated)

MaxMessages == 2

MaxBufferLen == 6

\* Byte strings to read a channel id from.
Buffers == SeqsUpTo({1, end_option}, MaxBufferLen)

ChannelIDs == {ZeroChannelID, <<1, 2, 3, 4>>}

\* Messages to put into a datagram: handshakes as handshake.new makes them,
\* and an instance of a Message subclass whose type is DATA.
MessageInputs ==
    {Handshake(HANDSHAKE, channel_id, options).value :
         channel_id \in ChannelIDs,
         options \in {NoOptions, [NoOptions EXCEPT ![version] = Some(1)]}}
    \cup {[class |-> "Message", type |-> MessageType[2]]}

\* Messages as they appear on the wire: the tag byte and the body, and the
\* message they denote. 0xCC is the tag of no message type.
WireMessages ==
    {[tag |-> HANDSHAKE, body |-> ZeroChannelID \o <<end_option>>,
      message |-> Handshake(HANDSHAKE, ZeroChannelID, NoOptions).value],
     [tag |-> HANDSHAKE, body |-> <<1, 2, 3, 4, version, 1, end_option>>,
      message |-> Handshake(HANDSHAKE, <<1, 2, 3, 4>>,
                            [NoOptions EXCEPT ![version] = Some(1)]).value],
     [tag |-> MessageType[2], body |-> <<>>,
      message |-> [class |-> "Message", type |-> MessageType[2]]],
     [tag |-> 204, body |-> <<>>, message |-> <<>>]}

\* The handler tables a caller passes to messages.decode: none, the
\* handshake codec, the handshake codec and a handler for DATA.
HandlerTables ==
    {decode_message_handlers,
     [type \in {HANDSHAKE} |-> "handshake.decode"],
     [type \in {HANDSHAKE, MessageType[2]} |->
         IF type = HANDSHAKE THEN "handshake.decode" ELSE "dummy"]}

\* The bytes of a list of wire messages.
RECURSIVE MessagesWire(_)
MessagesWire(items) ==
    IF items = <<>> THEN <<>>
    ELSE <<Head(items).tag>> \o Head(items).body \o MessagesWire(Tail(items))

\* The arguments of a Datagram, and whether asserts run.
DatagramInputs ==
    {[channel_id |-> channel_id, messages |-> messages, debug |-> debug] :
         channel_id \in ChannelIDs,
         messages \in SeqsUpTo(MessageInputs, MaxMessages),
         debug \in BOOLEAN}

\* A codec call touches no connector, connection or protocol.
CodecOnly ==
    UNCHANGED <<closed, pool, acquired, connection_timeout, conns, eps, pending,
                loop_closed, garbage, connector_finalized, warnings,
                exc_handler, releaseLog, ended, last, udp_vars>>

Call(op, arg, src, res) == [op |-> op, arg |-> arg, src |-> src, res |-> res]

\* A value the program holds before any codec call: res.value is the value,
\* op names its type.
Value(type, value) == Call(type, Nothing, Nothing, [error |-> "none", value |-> value])

\* Records cut short on the wire: a swarm identifier that announces 16 bytes
\* and holds one, with and without bytes after it.
TruncatedRecords ==
    {<<swarm_identifier, 0, 16, 0>>, <<swarm_identifier, 0, 16, 0, end_option>>}

CodecInputs ==
    {Value("set", messages) : messages \in MessageSets}
    \cup {Value("bytes", payload) : payload \in BitmapPayloads \cup {RfcPayload}}
    \cup {Value("ProtocolOptions", options) : options \in OptionsInputs \cup WindowInputs}
    \cup {Value("arguments", arguments) : arguments \in DatagramInputs}
    \cup {Value("wire messages", [items |-> items, handlers |-> handlers]) :
              items \in SeqsUpTo(WireMessages, MaxMessages), handlers \in HandlerTables}
    \cup {Value("buffer", data) : data \in Buffers}
    \cup {Value("truncated", data) : data \in TruncatedRecords}
    \cup {Value("items", [items |-> items, terminated |-> terminated]) :
              items \in SeqsUpTo(WireItems, MaxItems), terminated \in BOOLEAN}

Calls == {"encode_supported_messages", "decode_supported_messages",
          "protocol_options.encode", "protocol_options.decode",
          "Datagram", "datagrams.encode", "datagrams.decode", "messages.decode",
          "ChannelID", "channel_ids.decode", "channel_ids.encode"}

\* What the call made now remembers of the state it starts from: the argument
\* of the call whose result it takes, if there was one.
Source == IF codec.op \in Calls THEN Some(codec.arg) ELSE Nothing

\* encode_supported_messages(messages, ...) on a set of message types: one held
\* from the start, or the one decode_supported_messages returned
EncodeSupportedMessages ==
    /\ codec.op \in {"set", "decode_supported_messages"}
    /\ codec.res.error = "none"
    /\ codec' = Call("encode_supported_messages", codec.res.value, Source,
                     encode_supported_messages(codec.res.value))
    /\ CodecOnly

\* decode_supported_messages(data, 0, ...) on the bytes held from the start,
\* or on the bytes encode_supported_messages returned
DecodeSupportedMessages ==
    /\ \/ /\ codec.op = "bytes"
          /\ codec' = Call("decode_supported_messages", codec.res.value, Source,
                           decode_supported_messages(codec.res.value, 0))
       \/ /\ codec.op = "encode_supported_messages"
          /\ codec.res.error = "none"
          /\ codec' = Call("decode_supported_messages", codec.res.value[1], Source,
                           decode_supported_messages(codec.res.value[1], 0))
    /\ CodecOnly

\* protocol_options.encode(options) on a record held from the start, or on
\* the one protocol_options.decode returned
EncodeOptions ==
    /\ \/ /\ codec.op = "ProtocolOptions"
          /\ codec' = Call("protocol_options.encode", codec.res.value, Source,
                           protocol_options_encode(codec.res.value))
       \/ /\ codec.op = "protocol_options.decode"
          /\ codec.res.error = "none"
          /\ codec' = Call("protocol_options.encode", codec.res.options, Source,
                           protocol_options_encode(codec.res.options))
    /\ CodecOnly

\* protocol_options.decode(data) on the bytes protocol_options.encode
\* returned, or on the bytes of the items held from the start (the call then
\* remembers the items)
DecodeOptions ==
    /\ \/ /\ codec.op = "protocol_options.encode"
          /\ codec.res.error = "none"
          /\ codec' = Call("protocol_options.decode", codec.res.data, Source,
                           protocol_options_decode(codec.res.data))
       \/ /\ codec.op = "items"
          /\ LET data == Wire(codec.res.value.items, codec.res.value.terminated)
             IN codec' = [items |-> codec.res.value.items] @@
                         Call("protocol_options.decode", data, Source,
                              protocol_options_decode(data))
    /\ CodecOnly

\* Datagram(channel_id, messages) on the arguments held from the start
NewDatagram ==
    /\ codec.op = "arguments"
    /\ LET arguments == codec.res.value
       IN codec' = [debug |-> arguments.debug] @@
                   Call("Datagram", arguments, Source,
                        Datagram(arguments.channel_id, arguments.messages,
                                 arguments.debug))
    /\ CodecOnly

\* datagrams.encode(datagram) on the datagram made or decoded before
EncodeDatagram ==
    /\ codec.op \in {"Datagram", "datagrams.decode"}
    /\ codec.res.error = "none"
    /\ codec' = [debug |-> codec.debug] @@
                Call("datagrams.encode", codec.res.value, Source,
                     datagrams_encode(codec.res.value))
    /\ CodecOnly

\* datagrams.decode(data) on the bytes datagrams.encode returned
DecodeDatagram ==
    /\ codec.op = "datagrams.encode"
    /\ codec.res.error = "none"
    /\ codec' = [debug |-> codec.debug] @@
                Call("datagrams.decode", codec.res.value, Source,
                     datagrams_decode(codec.res.value, codec.debug))
    /\ CodecOnly

\* messages.decode(data, handlers=handlers) on the bytes of the wire messages
\* held from the start (the call remembers them and the handlers)
DecodeMessages ==
    /\ codec.op = "wire messages"
    /\ LET data == MessagesWire(codec.res.value.items)
       IN codec' = codec.res.value @@
                   Call("messages.decode", data, Source,
                        messages_decode(data, <<>>, codec.res.value.handlers))
    /\ CodecOnly

\* ChannelID(data) on the bytes held from the start
NewChannelID ==
    /\ codec.op = "buffer"
    /\ codec' = Call("ChannelID", codec.res.value, Source, ChannelID(codec.res.value))
    /\ CodecOnly

\* channel_ids.decode(data) on the bytes held from the start
DecodeChannelID ==
    /\ codec.op = "buffer"
    /\ codec' = Call("channel_ids.decode", codec.res.value, Source,
                     channel_ids_decode(codec.res.value))
    /\ CodecOnly

\* channel_ids.encode(channel_id) on the id channel_ids.decode returned
EncodeChannelID ==
    /\ codec.op = "channel_ids.decode"
    /\ codec.res.error = "none"
    /\ codec' = Call("channel_ids.encode", codec.res.value, Source,
                     channel_ids_encode(codec.res.value))
    /\ CodecOnly

\* protocol_options.decode(data) on the first n bytes of what
\* protocol_options.encode returned (the call remembers the whole record), or
\* on bytes held from the start that end inside an option
DecodeTruncated ==
    /\ \/ /\ codec.op = "protocol_options.encode"
          /\ codec.res.error = "none"
          /\ \E n \in 0..(Len(codec.res.data) - 1) :
                 LET data == SubSeq(codec.res.data, 1, n)
                 IN codec' = Call("protocol_options.decode truncated", data,
                                  Some(codec.res.data), protocol_options_decode(data))
       \/ /\ codec.op = "truncated"
          /\ codec' = Call("protocol_options.decode truncated", codec.res.value,
                           Nothing, protocol_options_decode(codec.res.value))
    /\ CodecOnly

\* protocol_options.decode(data) on the options protocol_options.encode
\* returned sent twice in one list: the encoded options, the same options
\* again, and the end option
DecodeRepeated ==
    /\ codec.op = "protocol_options.encode"
    /\ codec.res.error = "none"
    /\ LET once == codec.res.data
           data == SubSeq(once, 1, Len(once) - 1) \o once
       IN codec' = Call("protocol_options.decode repeated", data,
                        Some(once), protocol_options_decode(data))
    /\ CodecOnly

CodecNext ==
    \/ DecodeTruncated
    \/ DecodeRepeated
    \/ EncodeSupportedMessages
    \/ DecodeSupportedMessages
    \/ EncodeOptions
    \/ DecodeOptions
    \/ NewDatagram
    \/ EncodeDatagram
    \/ DecodeDatagram
    \/ DecodeMessages
    \/ NewChannelID
    \/ DecodeChannelID
    \/ EncodeChannelID

CodecInit == ConnectorInit /\ connection_timeout = 0 /\ codec \in CodecInputs

CodecSpec == CodecInit /\ [][CodecNext]_vars

----------------------------------------------------------------------------
\* C14: for every set S of message types, including the empty set and the
\* sets whose bitmap bytes have a zero most significant bit,
\* decode_supported_messages of encode_supported_messages(S) returns S.
C14_BitmapRoundTrip ==
    (codec.op = "decode_supported_messages" /\ codec.src # Nothing)
        => /\ codec.res.error = "none"
           /\ codec.res.value = codec.src[1]

\* C15: the bitmap encode_supported_messages emits has no trailing zero byte
\* and the length byte before it is the trimmed length; a non-empty set of
\* types below 8 takes one bitmap byte.
C15_BitmapIsTrimmed ==
    codec.op = "encode_supported_messages"
        => LET data == codec.res.value[1]
               bitmap == Tail(data)
           IN /\ codec.res.error = "none"
              /\ data[1] = Len(bitmap)
              /\ bitmap # <<>> => bitmap[Len(bitmap)] # 0
              /\ (codec.arg # {} /\ \A message \in codec.arg : message < 8)
                     => data[1] = 1

\* C16: the payload 02 D9 F0 decodes to every message type but ACK and the four
\* PEX ones, and that set encodes to 02 D9 F0.
C16_RfcExamplePreserved ==
    /\ (codec.op = "decode_supported_messages" /\ codec.arg = RfcPayload)
           => /\ codec.res.error = "none"
              /\ codec.res.value = RfcMessages
              /\ codec.res.offset = Len(RfcPayload)
    /\ (codec.op = "encode_supported_messages" /\ codec.arg = RfcMessages)
           => /\ codec.res.error = "none"
              /\ codec.res.value = Some(RfcPayload)

\* The RFC payload has been decoded and the decoded set encoded again.
C16_Witness ==
    /\ codec.op = "encode_supported_messages"
    /\ codec.src = Some(RfcPayload)
    /\ codec.arg = RfcMessages
    /\ codec.res.value = Some(RfcPayload)

\* C13: for every valid ProtocolOptions record p (a live discard window
\* only together with a chunk addressing method), decode(encode(p)) returns p.
C13_OptionsRoundTrip ==
    (/\ codec.op = "protocol_options.decode"
     /\ codec.src # Nothing
     /\ ValidOptions(codec.src[1]))
        => /\ codec.res.error = "none"
           /\ codec.res.options = codec.src[1]

\* The decode call was made on a list of wire items.
DecodedItems == codec.op = "protocol_options.decode" /\ "items" \in DOMAIN codec

\* Item i is a live discard window and no item before it is a chunk
\* addressing method.
WindowBeforeMethod(items, i) ==
    /\ items[i].code = live_discard_window
    /\ \A j \in 1..(i - 1) : items[j].code # chunk_addressing_method

\* C17: decoding a record in which code 7 occurs before any code 6 has been
\* decoded fails, whatever follows.
C17_WindowBeforeMethodFails ==
    (/\ DecodedItems
     /\ \E i \in DOMAIN codec.items : WindowBeforeMethod(codec.items, i))
        => codec.res.error # "none"

\* A record that opens with a live discard window, other items after it, has
\* been refused.
C17_Witness ==
    /\ DecodedItems
    /\ Len(codec.items) > 1
    /\ WindowBeforeMethod(codec.items, 1)
    /\ codec.res.error = "AttributeError"

\* C18: encoding a record with a live discard window and no chunk addressing
\* method gives the bytes of the same record without the window (FF when the
\* window is its only field), and what those bytes decode to has no window.
C18_WindowWithoutMethodOmitted ==
    /\ (/\ codec.op = "protocol_options.encode"
        /\ codec.arg[live_discard_window] # Nothing
        /\ codec.arg[chunk_addressing_method] = Nothing)
           => /\ codec.res.error = "none"
              /\ codec.res = protocol_options_encode(
                                 [codec.arg EXCEPT ![live_discard_window] = Nothing])
              /\ (\A code \in DOMAIN codec.arg :
                      code # live_discard_window => codec.arg[code] = Nothing)
                     => codec.res.data = <<end_option>>
    /\ (/\ codec.op = "protocol_options.decode"
        /\ codec.src # Nothing
        /\ codec.src[1][chunk_addressing_method] = Nothing
        /\ codec.res.error = "none")
           => codec.res.options[live_discard_window] = Nothing

\* A record holding a live discard window and other fields, but no chunk
\* addressing method, has been encoded.
C18_Witness ==
    /\ codec.op = "protocol_options.encode"
    /\ codec.arg[live_discard_window] # Nothing
    /\ codec.arg[chunk_addressing_method] = Nothing
    /\ codec.arg[swarm_identifier] # Nothing
    /\ codec.res.error = "none"
    /\ Len(codec.res.data) > 1

\* Item j repeats the code of an earlier item.
Repeats(items, j) == \E i \in 1..(j - 1) : items[i].code = items[j].code

C20_DatagramRoundTrip ==
    /\ codec.op \in {"Datagram", "datagrams.encode"} => codec.res.error = "none"
    /\ (codec.op = "datagrams.decode" /\ codec.src # Nothing)
           => /\ codec.res.error = "none"
              /\ codec.res.value = codec.src[1]

\* The tag of a wire message names a message type with a handler in the table.
Registered(item, handlers) == item.tag \in AllMessageTypes /\ item.tag \in DOMAIN handlers

C23_ChannelIdCodec ==
    /\ codec.op = "channel_ids.decode"
           => IF Len(codec.arg) >= 4
              THEN /\ codec.res.error = "none"
                   /\ codec.res.value = SubSeq(codec.arg, 1, 4)
                   /\ codec.res.rest = SubSeq(codec.arg, 5, Len(codec.arg))
              ELSE codec.res.error # "none"
    /\ codec.op = "channel_ids.encode"
           => /\ codec.res.error = "none"
              /\ codec.res.value = SubSeq(codec.src[1], 1, 4)
    /\ codec.op = "ChannelID"
           => (codec.res.error = "none" <=> Len(codec.arg) = 4)

\* An id read from a buffer longer than 4 bytes has been encoded again.
C23_Witness ==
    /\ codec.op = "channel_ids.encode"
    /\ Len(codec.src[1]) > 4
    /\ codec.res.value = SubSeq(codec.src[1], 1, 4)

----------------------------------------------------------------------------
\* Connection.close and Connection.release as seen by the connector

\* The connection a step is about is attached before the step and its
\* connector is open.
AttachedOfOpen == ~closed /\ ~ConnClosed(conns, eps, last'.c)

\* Everything but connection c and protocol e is as it was.
OthersUnchanged(c, e) ==
    /\ DOMAIN conns' = DOMAIN conns
    /\ DOMAIN eps' = DOMAIN eps
    /\ \A d \in DOMAIN conns \ {c} : conns'[d] = conns[d]
    /\ \A f \in DOMAIN eps \ {e} : eps'[f] = eps[f]

\* close_connection for an attached connection that acquired[key] does not
\* hold (set.remove raises KeyError, which is passed over): acquired stays as
\* it is and the protocol is closed all the same.
MissingFromAcquiredTolerated ==
    \A c \in DOMAIN conns :
        ~ConnClosed(conns, eps, c)
            => LET missing == [acquired EXCEPT ![conns[c].key] = @ \ {c}]
                   r == connection_close(FALSE, missing, eps, conns, c)
               IN /\ r.error = "none"
                  /\ r.acquired = missing
                  /\ ProtocolClosed(r.eps, conns[c].protocol)
                  /\ r.conns[c].protocol = None

\* C24: Connection.close() on an attached connection of an open connector
\* takes the connection out of acquired[key] (whether or not it was there),
\* closes its protocol, leaves the connection closed with no protocol, and
\* changes neither the pool nor any other connection or protocol.
C24_CloseFrame ==
    /\ []MissingFromAcquiredTolerated
    /\ [][(last'.op = "Connection.close" /\ AttachedOfOpen)
              => LET c == last'.c
                     key == conns[c].key
                     e == conns[c].protocol
                 IN /\ last'.result = "returned"
                    /\ acquired' = [acquired EXCEPT ![key] = @ \ {c}]
                    /\ c \notin acquired'[key]
                    /\ ProtocolClosed(eps', e)
                    /\ conns'[c].protocol = None
                    /\ ConnClosed(conns', eps', c)
                    /\ pool' = pool
                    /\ closed' = closed
                    /\ OthersUnchanged(c, e)]_vars

\* A connection has been closed while another one of the same key is still
\* acquired and attached.
C24_Witness ==
    /\ last.op = "Connection.close" /\ last.called /\ last.result = "returned"
    /\ ~closed
    /\ conns[last.c].protocol = None
    /\ ~Held(last.c)
    /\ \E d \in acquired[conns[last.c].key] : ~ConnClosed(conns, eps, d)

\* C25: Connection.release() on an attached connection of an open connector
\* takes the connection out of acquired[key] and puts its protocol, still
\* attached, on top of pool[key], creating the entry when the key has none;
\* the connection is left closed with no protocol and the pool's other keys
\* keep their entries.
C25_ReleaseFrame ==
    [][(last'.op = "Connection.release" /\ AttachedOfOpen)
           => LET c == last'.c
                  key == conns[c].key
                  e == conns[c].protocol
                  before == IF key \in DOMAIN pool THEN pool[key] ELSE <<>>
              IN /\ acquired' = [acquired EXCEPT ![key] = @ \ {c}]
                 /\ c \notin acquired'[key]
                 /\ key \in DOMAIN pool'
                 /\ pool'[key] = Append(before, e)
                 /\ DOMAIN pool' = DOMAIN pool \cup {key}
                 /\ \A k \in DOMAIN pool \ {key} : pool'[k] = pool[k]
                 /\ eps' = eps
                 /\ ~ProtocolClosed(eps', e)
                 /\ conns'[c].protocol = None
                 /\ ConnClosed(conns', eps', c)
                 /\ OthersUnchanged(c, e)]_vars

\* A connection has been released onto a pool entry that already held a
\* protocol.
C25_Witness ==
    /\ last.op = "Connection.release" /\ last.called
    /\ ~closed
    /\ conns[last.c].protocol = None
    /\ LET key == conns[last.c].key
       IN /\ key \in DOMAIN pool /\ Len(pool[key]) = 2
          /\ ~ProtocolClosed(eps, pool[key][2])
          /\ releaseLog[key] # <<>>
          /\ pool[key][2] = releaseLog[key][Len(releaseLog[key])]

----------------------------------------------------------------------------
\* Closing the connector after the loop

UnclosedConnector == <<"Unclosed connector", 0>>

\* The step is BaseConnector.close(), called by the program or by the
\* finalizer of an open connector with a pool.
CloseRuns ==
    \/ last'.op = "Connector.close"
    \/ last'.op = "Connector.__del__" /\ ~closed /\ DOMAIN pool # {}

----------------------------------------------------------------------------
\* The protocol's life cycle and its observables

\* transport._sock.getsockname() of a bound socket of the family.
getsockname(family) ==
    IF family = "AF_INET" THEN <<"127.0.0.1", 4242>> ELSE <<"::1", 4242, 0, 0>>

\* What transport._sock.getpeername() does: the peer's address, or OSError on
\* a socket that is not connected to a peer.
OSError == <<"OSError">>

Peernames(family) == PeerAddrs(family) \cup {OSError}

\* BaseProtocol.local_address
local_address(E, e, sockname) ==
    IF ~E[e].transport THEN None
    ELSE Address(SubSeq(sockname, 1, 2)).value

\* BaseProtocol.remote_address, for the outcome `peername` of getpeername()
remote_address(E, e, peername) ==
    IF ~E[e].transport THEN None
    ELSE IF peername = OSError THEN None
    ELSE Address(SubSeq(peername, 1, 2)).value

\* The protocols a step attaches, and the ones it detaches.
Attaches == {e \in DOMAIN eps : ~eps[e].transport /\ eps'[e].transport}

Detaches == {e \in DOMAIN eps : eps[e].transport /\ ~eps'[e].transport}

\* C27: a protocol is created detached, connection_made attaches it, close()
\* and connection_lost detach it, and nothing else moves it between the two;
\* in every state closed is true exactly of the detached protocols, and
\* local_address and remote_address are None for them.
C27_EndpointLifecycle ==
    /\ [](\A e \in DOMAIN eps :
              /\ ProtocolClosed(eps, e) <=> ~eps[e].transport
              /\ ~eps[e].transport
                     => /\ e \in DOMAIN sockets
                            => local_address(eps, e, getsockname(sockets[e].family)) = None
                        /\ \A family \in Families : \A peername \in Peernames(family) :
                               remote_address(eps, e, peername) = None)
    /\ [][/\ \A e \in DOMAIN eps' \ DOMAIN eps : ProtocolClosed(eps', e)
          /\ last'.op = "connection_made"
                 => Cardinality(Attaches) = 1 /\ Detaches = {}
          /\ last'.op = "connection_lost"
                 => Cardinality(Detaches) = 1 /\ Attaches = {}
          /\ (last'.op = "Connection.close" /\ last'.called)
                 => Detaches = {conns[last'.c].protocol} /\ Attaches = {}
          /\ Attaches # {} => last'.op = "connection_made"
          /\ Detaches # {} => last'.op \in {"connection_lost", "Connection.close"}]_vars

\* A protocol that was created detached and then attached, with both of its
\* addresses known, has been detached again by connection_lost.
C27_Witness ==
    /\ last.op = "connection_lost"
    /\ \E e \in DOMAIN sockets :
          /\ sockets[e].made
          /\ ProtocolClosed(eps, e)
          /\ local_address(connection_made(eps, e), e,
                           getsockname(sockets[e].family)).port = 4242
          /\ local_address(eps, e, getsockname(sockets[e].family)) = None
          /\ \E peername \in PeerAddrs(sockets[e].family) :
                 /\ remote_address(connection_made(eps, e), e, peername).port = 7
                 /\ remote_address(eps, e, peername) = None

----------------------------------------------------------------------------
\* The bitmap as the decoder is to read it

\* Bit i of the bitmap bytes, counted from the most significant bit of the
\* first byte.
BitAt(bitmap, i) == (bitmap[(i \div 8) + 1] \div 2^(7 - (i % 8))) % 2

\* The message types whose bit is set, by declaration order; positions past
\* the last message type denote nothing.
TypesOfBitmap(bitmap) ==
    {MessageType[i + 1] : i \in {j \in 0..(Len(MessageType) - 1) :
                                     j < 8 * Len(bitmap) /\ BitAt(bitmap, j) = 1}}

\* C28: for a length byte L followed by L bitmap bytes,
\* decode_supported_messages returns exactly the message types whose bit,
\* counted from the most significant bit of the first byte, is 1; bits at
\* positions 14 and above denote nothing, and a byte such as 0x40 denotes the
\* type at the position of its set bit (DATA).
C28_BitmapDecodedMsbFirst ==
    (/\ codec.op = "decode_supported_messages"
     /\ codec.arg # <<>>
     /\ Len(codec.arg) = codec.arg[1] + 1)
        => /\ codec.res.error = "none"
           /\ codec.res.value = TypesOfBitmap(Tail(codec.arg))
           /\ codec.arg = <<1, 64>> => codec.res.value = {MessageType[2]}

----------------------------------------------------------------------------
\* The width of the live discard window

\* The width the window takes on the wire for a chunk addressing method:
\* 4 bytes for bins32 (0) and chunks32 (2), 8 for bytes64, bins64, chunks64.
WindowWidth(method) == IF method \in {0, 2} THEN 4 ELSE 8

\* bytes is the big-endian unsigned form of value in n bytes.
RECURSIVE Horner(_, _)
Horner(bytes, acc) ==
    IF bytes = <<>> THEN acc ELSE Horner(Tail(bytes), acc * 256 + Head(bytes))

IsBigEndian(bytes, value, n) ==
    /\ Len(bytes) = n
    /\ \A i \in 1..n : bytes[i] \in 0..255
    /\ Horner(bytes, 0) = value

\* The record sets a chunk addressing method and a live discard window only.
WindowOnly(options) ==
    /\ DOMAIN options = version..chunk_size
    /\ options[chunk_addressing_method] # Nothing
    /\ options[live_discard_window] # Nothing
    /\ \A code \in (version..chunk_size) \ {chunk_addressing_method, live_discard_window} :
           options[code] = Nothing

\* C29: the live discard window is a big-endian unsigned integer of 4 bytes
\* when the record's chunk addressing method is bins32 or chunks32 and of 8
\* bytes when it is bytes64, bins64 or chunks64, for the encoder and for the
\* decoder, which takes the width from the method decoded before the window in
\* the same record; decoding the bytes and encoding the result gives the bytes
\* back.
C29_WindowWidthFollowsMethod ==
    /\ (codec.op = "protocol_options.encode" /\ WindowOnly(codec.arg))
           => LET method == codec.arg[chunk_addressing_method][1]
                  window == codec.arg[live_discard_window][1]
                  n == WindowWidth(method)
                  data == codec.res.data
              IN /\ codec.res.error = "none"
                 /\ Len(data) = 4 + n
                 /\ SubSeq(data, 1, 3) = <<chunk_addressing_method, method,
                                           live_discard_window>>
                 /\ IsBigEndian(SubSeq(data, 4, 3 + n), window, n)
                 /\ data[4 + n] = end_option
                 /\ window = 258
                        => SubSeq(data, 4, 3 + n) =
                               IF method \in {0, 2} THEN <<0, 0, 1, 2>>
                               ELSE <<0, 0, 0, 0, 0, 0, 1, 2>>
                 /\ codec.src # Nothing => data = codec.src[1]
    /\ (/\ codec.op = "protocol_options.decode"
        /\ Len(codec.arg) > 3
        /\ codec.arg[1] = chunk_addressing_method
        /\ codec.arg[2] \in ChunkAddressingMethod
        /\ codec.arg[3] = live_discard_window
        /\ Len(codec.arg) = 4 + WindowWidth(codec.arg[2])
        /\ codec.arg[Len(codec.arg)] = end_option)
           => LET n == WindowWidth(codec.arg[2])
              IN /\ codec.res.error = "none"
                 /\ codec.res.rest = <<>>
                 /\ WindowOnly(codec.res.options)
                 /\ codec.res.options[chunk_addressing_method] = Some(codec.arg[2])
                 /\ IsBigEndian(SubSeq(codec.arg, 4, 3 + n),
                                codec.res.options[live_discard_window][1], n)

\* A 64-bit window has been encoded, decoded and encoded again to the same
\* eight bytes.
C29_Witness ==
    /\ codec.op = "protocol_options.encode"
    /\ WindowOnly(codec.arg)
    /\ codec.arg[chunk_addressing_method] = Some(1)
    /\ codec.arg[live_discard_window] = Some(258)
    /\ codec.src # Nothing
    /\ codec.res.data = codec.src[1]
    /\ codec.res.data = <<chunk_addressing_method, 1, live_discard_window,
                          0, 0, 0, 0, 0, 0, 1, 2, end_option>>

----------------------------------------------------------------------------
\* The order of the encoded options

\* The codes encode emits for a record: the fields that are set and whose
\* handler returns bytes.
EmittedCodes(options) ==
    {code \in version..chunk_size :
         /\ options[code] # Nothing
         /\ encode_handlers(code, options[code][1], options).value # Nothing}

\* The items of the codes, each the code byte and its value bytes, one after
\* the other.
RECURSIVE ItemsInOrder(_, _)
ItemsInOrder(options, codes) ==
    IF codes = <<>> THEN <<>>
    ELSE <<Head(codes)>>
         \o encode_handlers(Head(codes), options[Head(codes)][1], options).value[1]
         \o ItemsInOrder(options, Tail(codes))

\* C30: the encoder's output is the items of the record's options by strictly
\* ascending code, one item per code, followed by one end option FF and
\* nothing after it; the record with no field set encodes to FF alone, and
\* FF decodes to the record with all ten fields None.
C30_AscendingAndTerminated ==
    /\ codec.op = "protocol_options.encode"
           => LET codes == SetToSeq(EmittedCodes(codec.arg))
                  data == codec.res.data
              IN /\ codec.res.error = "none"
                 /\ \A i \in 1..(Len(codes) - 1) : codes[i] < codes[i + 1]
                 /\ data = ItemsInOrder(codec.arg, codes) \o <<end_option>>
                 /\ codec.arg = NoOptions => data = <<end_option>>
    /\ (codec.op = "protocol_options.decode" /\ codec.arg = <<end_option>>)
           => /\ codec.res.error = "none"
              /\ codec.res.options = NoOptions
              /\ Cardinality(DOMAIN codec.res.options) = 10
              /\ codec.res.rest = <<>>

\* A record with its first, third and last field set, the swarm identifier
\* holding the byte FF, has been encoded: 00 01, 02 00 01 FF, 09 00 01 00 00, FF.
C30_Witness ==
    /\ codec.op = "protocol_options.encode"
    /\ EmittedCodes(codec.arg) = {version, swarm_identifier, chunk_size}
    /\ codec.res.data = <<version, 1, swarm_identifier, 0, 1, end_option,
                          chunk_size, 0, 1, 0, 0, end_option>>

----------------------------------------------------------------------------
\* ppspp.Protocol: datagrams over UDP between two endpoints of one connector.
\* The first endpoint listens on a loopback address; the second one is
\* connected to the address the first one is bound to.

MaxKeepalives == 3     \* datagrams sent

ListenPort == 4242

ConnectPort == 4243

\* The address a socket is bound to, as recvfrom reports it to the peer.
SocketName(socket) ==
    IF socket.family = "AF_INET" THEN <<"127.0.0.1", socket.port>>
    ELSE <<"::1", socket.port, 0, 0>>

\* The endpoint's address as an Address(ip, port).
AddressOf(socket) ==
    [ip |-> IF socket.family = "AF_INET" THEN "127.0.0.1" ELSE "::1",
     port |-> socket.port]

\* ppspp.Protocol.send, from the encoded datagram on: udp.Protocol.send
ppspp_sendto(E, e, data) ==
    IF data.error # "none" THEN [result |-> data.error, data |-> <<>>]
    ELSE [result |-> protocol_send(E, e).result, data |-> data.value]

\* Connection.send on a ppspp.Protocol:
\* super().send(datagrams.encode(datagram), remote_address)
ppspp_send(E, C, c, datagram) ==
    IF ConnClosed(C, E, c) THEN [result |-> "ConnectionError", data |-> <<>>]
    ELSE ppspp_sendto(E, C[c].protocol, datagrams_encode(datagram))

\* ppspp.Protocol.recv, from the decoded datagram on: (datagram, addr)
ppspp_return(datagram, addr) ==
    IF datagram.error # "none"
    THEN [result |-> datagram.error, value |-> None]
    ELSE [result |-> "returned", value |-> <<datagram.value, addr>>]

\* ppspp.Protocol.recv once super().recv() returned item = (data, addr):
\* datagrams.decode(memoryview(data)), addr
ppspp_decode(item) == ppspp_return(datagrams_decode(item[1], TRUE), item[2])

\* connector.listen(Address(loopback, 0), family=family): the endpoint is
\* created with its transport up.
PpsppListen(key, family) ==
    /\ Running
    /\ pending = <<>>
    /\ eps = <<>>
    /\ LET e == Len(eps) + 1
           c == Len(conns) + 1
       IN /\ eps' = create_endpoint(eps)
          /\ sockets' = DictSet(sockets, e, [family |-> family, made |-> TRUE,
                                             port |-> ListenPort, peer |-> None])
          /\ conns' = Append(conns, spawn_connection(key, e))
          /\ acquired' = connect_result(acquired, key, c, "none").acquired
          /\ last' = [Rep("listen") EXCEPT !.c = c, !.result = "Connection",
                                           !.called = TRUE]
    /\ UNCHANGED <<closed, pool, connection_timeout, pending, loop_closed, garbage,
                   connector_finalized, warnings, exc_handler, releaseLog, ended,
                   delivered, received, network, codec>>

\* connector.connect(listener.local_address, family=family): the socket is
\* connected to the listener's address.
PpsppConnect(key) ==
    /\ Running
    /\ pending = <<>>
    /\ Len(eps) = 1
    /\ eps[1].transport
    /\ LET e == Len(eps) + 1
           c == Len(conns) + 1
       IN /\ eps' = create_endpoint(eps)
          /\ sockets' = DictSet(sockets, e, [family |-> sockets[1].family,
                                             made |-> TRUE,
                                             port |-> ConnectPort, peer |-> 1])
          /\ conns' = Append(conns, spawn_connection(key, e))
          /\ acquired' = connect_result(acquired, key, c, "none").acquired
          /\ last' = [Rep("connect") EXCEPT !.c = c, !.result = "Connection",
                                            !.called = TRUE]
    /\ UNCHANGED <<closed, pool, connection_timeout, pending, loop_closed, garbage,
                   connector_finalized, warnings, exc_handler, releaseLog, ended,
                   delivered, received, network, codec>>

\* The endpoints protocol e may send to: the peer its socket is connected
\* to (remote_address=None), or for an unconnected socket an endpoint whose
\* address a recv has returned to it.
Destinations(e) ==
    IF sockets[e].peer # None THEN {sockets[e].peer}
    ELSE {to \in DOMAIN sockets :
              \E i \in DOMAIN received :
                  received[i][1] = e /\ received[i][2][2] = AddressOf(sockets[to])}

\* await connection.send(Datagram(channel_id, []), remote_address)
PpsppSend(c, channel_id) ==
    /\ Running
    /\ Live(c)
    /\ Len(network) < MaxKeepalives
    /\ LET datagram == Datagram(channel_id, <<>>, TRUE).value
           r == ppspp_send(eps, conns, c, datagram)
       IN /\ IF r.result = "returned"
             THEN \E to \in Destinations(conns[c].protocol) :
                      network' = Append(network, [from |-> conns[c].protocol,
                                                  to |-> to, data |-> r.data,
                                                  datagram |-> datagram,
                                                  arrived |-> FALSE])
             ELSE network' = network
          /\ last' = [Rep("Connection.send") EXCEPT !.c = c, !.result = r.result,
                                                    !.called = r.result = "returned"]
    /\ UNCHANGED <<closed, pool, acquired, connection_timeout, conns, eps, pending,
                   loop_closed, garbage, connector_finalized, warnings,
                   exc_handler, releaseLog, ended, sockets, delivered, received,
                   codec>>

\* The transport of the destination reads datagram i from its socket and
\* calls protocol.datagram_received(data, addr) with the sender's address.
PpsppDeliver(i) ==
    /\ ~loop_closed
    /\ ~network[i].arrived
    /\ eps[network[i].to].transport
    /\ LET addr == SocketName(sockets[network[i].from])
           r == datagram_received(eps, network[i].to, network[i].data, addr)
       IN /\ eps' = r.eps
          /\ delivered' = Append(delivered, <<network[i].to, network[i].data, addr, i>>)
          /\ last' = [Rep("datagram_received") EXCEPT
                         !.result = IF r.error = "none" THEN "returned" ELSE r.error]
    /\ network' = [network EXCEPT ![i].arrived = TRUE]
    /\ UNCHANGED <<closed, pool, acquired, connection_timeout, conns, pending,
                   loop_closed, garbage, connector_finalized, warnings,
                   exc_handler, releaseLog, ended, sockets, received, codec>>

\* await connection.recv() on a ppspp.Protocol
PpsppRecv(c) ==
    /\ Running
    /\ Live(c)
    /\ LET r == connection_recv(eps, conns, c)
           d == IF r.result = "returned" THEN ppspp_decode(r.value)
                ELSE [result |-> r.result, value |-> None]
       IN /\ r.result = "suspended" => eps[conns[c].protocol].getters < MaxGetters
          /\ eps' = r.eps
          /\ received' = IF d.result = "returned"
                         THEN Append(received, <<conns[c].protocol, d.value>>)
                         ELSE received
          /\ last' = [Rep("Connection.recv") EXCEPT !.c = c, !.result = d.result,
                                                    !.called = r.called]
    /\ UNCHANGED <<closed, pool, acquired, connection_timeout, conns, pending,
                   loop_closed, garbage, connector_finalized, warnings,
                   exc_handler, releaseLog, ended, sockets, delivered, network,
                   codec>>

\* A recv coroutine waiting in Queue.get of endpoint e is resumed, takes the
\* head of the buffer and decodes it.
PpsppRecvResume(e) ==
    /\ ~loop_closed
    /\ eps[e].getters > 0
    /\ eps[e].buffer # <<>>
    /\ LET d == ppspp_decode(Head(eps[e].buffer))
       IN /\ received' = IF d.result = "returned"
                         THEN Append(received, <<e, d.value>>)
                         ELSE received
          /\ last' = [Rep("Connection.recv resumed") EXCEPT !.result = d.result,
                                                            !.called = TRUE]
    /\ eps' = [eps EXCEPT ![e].getters = @ - 1, ![e].buffer = Tail(@)]
    /\ UNCHANGED <<closed, pool, acquired, connection_timeout, conns, pending,
                   loop_closed, garbage, connector_finalized, warnings,
                   exc_handler, releaseLog, ended, sockets, delivered, network,
                   codec>>

PpsppNext ==
    \/ \E key \in Keys, family \in Families : PpsppListen(key, family)
    \/ \E key \in Keys : PpsppConnect(key)
    \/ \E c \in DOMAIN conns, channel_id \in ChannelIDs : PpsppSend(c, channel_id)
    \/ \E i \in DOMAIN network : PpsppDeliver(i)
    \/ \E c \in DOMAIN conns : PpsppRecv(c)
    \/ \E e \in DOMAIN eps : PpsppRecvResume(e)
    \/ \E c \in DOMAIN conns : ConnectionClose(c)

PpsppSpec == UdpInit /\ [][PpsppNext]_vars

\* The datagrams the transport delivered to endpoint e, in callback order.
ArrivedAt(e) == SelectSeq(delivered, LAMBDA d : d[1] = e)

\* C22: a Datagram(c, []) travels as exactly the 4 bytes of c, and once the
\* transport has delivered it to the other endpoint it is either still queued
\* there or a recv of that endpoint has returned it as a Datagram with
\* channel id c and no messages, together with the sender's address, in the
\* order of delivery; this holds from the connecting endpoint to the
\* listening one and back.
C22_KeepaliveExchange ==
    /\ \A i \in DOMAIN network :
           /\ Len(network[i].data) = 4
           /\ network[i].data = network[i].datagram.channel_id
    /\ \A e \in DOMAIN eps :
           LET arrived == ArrivedAt(e)
               returned == ReceivedFrom(e)
           IN /\ Len(returned) + Len(eps[e].buffer) = Len(arrived)
              /\ \A i \in 1..Len(returned) :
                     LET packet == network[arrived[i][4]]
                     IN /\ i <= Len(arrived)
                        /\ returned[i][1].channel_id = packet.datagram.channel_id
                        /\ returned[i][1].messages = <<>>
                        /\ returned[i][2] = AddressOf(sockets[packet.from])

----------------------------------------------------------------------------
\* Truncated options

ShortRead == "ValueError('Expected read')"

\* C31: protocol_options.decode of a proper prefix of an encoded record (the
\* empty input, a record without its end option, a record cut inside a value)
\* and of a swarm identifier whose length field exceeds the bytes that follow
\* raises the short-read ValueError of decode_value and returns no record.
C31_TruncatedNeverDecodes ==
    codec.op = "protocol_options.decode truncated"
        => /\ codec.res.error = ShortRead
           /\ codec.res.options = NoOptions

\* A record with a swarm identifier holding the byte FF has been decoded with
\* its end option cut off, which leaves FF as the last byte.
C31_Witness ==
    /\ codec.op = "protocol_options.decode truncated"
    /\ codec.src # Nothing
    /\ Len(codec.arg) = Len(codec.src[1]) - 1
    /\ Len(codec.arg) > 3
    /\ codec.arg[Len(codec.arg)] = end_option
    /\ codec.res.error = ShortRead

----------------------------------------------------------------------------
\* Pooled endpoints and the call that asks for one: connect and listen on a
\* connector without timeout, with the socket of every endpoint remembered.

PoolNext ==
    \/ \E key \in Keys : Connect(key)
    \/ \E key \in Keys : Listen(key)
    \/ \E i \in DOMAIN pending : EndpointBound(i)
    \/ \E i \in DOMAIN pending : ConnectDone(i)
    \/ \E c \in DOMAIN conns : ConnectionRelease(c)
    \/ \E c \in DOMAIN conns : ConnectionClose(c)

PoolSpec == UdpInit /\ [][PoolNext]_vars

\* C32: the endpoint of a connection connect(a) returns was created with
\* remote_address = a, and the endpoint of a connection listen(a) returns was
\* created with local_address = a; an endpoint a listen(a) connection
\* released is not handed out by connect(a), nor the other way round.
C32_EndpointMatchesCall ==
    [][(last'.op \in ConnectOps /\ last'.result = "Connection")
           => LET socket == sockets'[Returned.protocol]
              IN /\ socket.role = last'.op
                 /\ socket.address = Returned.key]_vars

\* connect/listen returned a connection around an endpoint taken from pool.
FromPool ==
    /\ last'.op \in ConnectOps
    /\ last'.result = "Connection"
    /\ ~last'.called

\* C33: an endpoint connect/listen hands out from pool is attached when it
\* is returned; a connection obtained from pool never reports closed on
\* return, also when the transport lost the endpoint while it was pooled.
C33_PooledHandedOutAttached ==
    [][FromPool => ~ConnClosed(conns', eps', last'.c)]_vars

----------------------------------------------------------------------------
\* Connector.close against calls in flight: connect and listen are only
\* called on an open connector, so a call that completes on a closed one was
\* suspended in endpoint creation when close() ran.

SuspendedNext ==
    \/ \E key \in Keys : ~closed /\ Connect(key)
    \/ \E key \in Keys : ~closed /\ Listen(key)
    \/ \E i \in DOMAIN pending : EndpointMade(i)
    \/ \E i \in DOMAIN pending : ConnectDone(i)
    \/ \E i \in DOMAIN pending : ConnectTimedOut(i)
    \/ \E i \in DOMAIN pending : ConnectOSError(i)
    \/ \E c \in DOMAIN conns : ConnectionClose(c)
    \/ \E c \in DOMAIN conns : ConnectionRelease(c)
    \/ ConnectorClose

SuspendedSpec == Init /\ [][SuspendedNext]_vars

\* A connect/listen call that awaited create_endpoint completes.
Completes ==
    /\ last'.op \in ConnectOps
    /\ last'.called
    /\ last'.result # "create_endpoint"

\* C34: when Connector.close() ran while a connect/listen call was suspended
\* in endpoint creation, then once the call completes the closed connector's
\* acquired map is still empty and the new endpoint has no open transport:
\* the call fails or the endpoint is closed.
C34_CloseWhileSuspended ==
    [][(closed /\ Completes)
           => /\ \A k \in Keys : acquired'[k] = {}
              /\ last'.result = "Connection"
                     => ProtocolClosed(eps', Returned.protocol)]_vars

\* C35: after Connection.close() or Connection.release() returns on an open
\* connector, the connection is not a member of acquired[key], also when a
\* connection_lost event had detached its endpoint before the call.
C35_EndedNotAcquired ==
    [][(/\ ~closed
        /\ last'.op \in {"Connection.close", "Connection.release"}
        /\ last'.result = "returned")
           => last'.c \notin acquired'[conns[last'.c].key]]_vars

\* C38: pool never maps a key to an empty list, and the assertion
\* `key not in self._pool` at the end of _get_connection never fails, for any
\* sequence of connect, listen, release and close.
C38_PoolNeverEmptyStack ==
    /\ \A key \in DOMAIN pool : pool[key] # <<>>
    /\ last.result # "AssertionError"

\* connect/listen has just taken the only endpoint pooled under its key, and
\* the key is gone from pool.
C38_Witness ==
    /\ last.op \in ConnectOps
    /\ last.result = "Connection"
    /\ ~last.called
    /\ conns[last.c].key \notin DOMAIN pool
    /\ pool # <<>>

----------------------------------------------------------------------------
\* Suspended recv calls under the event loop's scheduling: a getter of the
\* queue that put_nowait woke up is run by the loop, so a recv that can be
\* resumed is resumed. Nothing else is promised: the program may stop calling
\* and the transport may stay silent.

UdpFairSpec == UdpSpec /\ WF_vars(\E e \in DOMAIN eps : RecvResume(e))

\* A recv call waits among the getters of endpoint e's queue.
Suspended(e) == e \in DOMAIN eps /\ eps[e].getters > 0

\* C36: a recv call suspended on an empty buffer completes once its endpoint
\* is closed (by Connection.close or by connection_lost): it returns or
\* raises instead of staying suspended for ever.
C36_SuspendedRecvCompletes ==
    \A e \in 1..MaxEndpoints :
        (Suspended(e) /\ ProtocolClosed(eps, e)) ~> ~Suspended(e)

----------------------------------------------------------------------------
\* Pooled endpoints and their receive buffers: endpoints are created, receive
\* datagrams while acquired and while pooled, are released and acquired again.

ReuseNext ==
    \/ \E key \in Keys : Connect(key)
    \/ \E i \in DOMAIN pending : EndpointBound(i)
    \/ \E i \in DOMAIN pending : ConnectDone(i)
    \/ \E e \in DOMAIN eps, data \in Payloads : DatagramReceived(e, data)
    \/ \E c \in DOMAIN conns : Recv(c)
    \/ \E e \in DOMAIN eps : RecvResume(e)
    \/ \E c \in DOMAIN conns : ConnectionRelease(c)

ReuseSpec == UdpInit /\ [][ReuseNext]_vars

\* The buffers of all endpoints, as they are queued.
Queued(E) == [e \in DOMAIN E |-> E[e].buffer]

----------------------------------------------------------------------------
\* The order of the options on the wire

\* The items of a set with distinct codes, lowest code first.
RECURSIVE AscendingItems(_)
AscendingItems(S) ==
    IF S = {} THEN <<>>
    ELSE LET first == CHOOSE item \in S : \A other \in S : item.code <= other.code
         IN <<first>> \o AscendingItems(S \ {first})

ItemSet(items) == {items[i] : i \in DOMAIN items}

DistinctCodes(items) ==
    \A i, j \in DOMAIN items : items[i].code = items[j].code => i = j

Position(items, code) == CHOOSE i \in DOMAIN items : items[i].code = code

Has(items, code) == \E i \in DOMAIN items : items[i].code = code

\* The permutations the rule allows: a live discard window comes with a chunk
\* addressing method, and after it.
MethodBeforeWindow(items) ==
    Has(items, live_discard_window)
        => /\ Has(items, chunk_addressing_method)
           /\ Position(items, chunk_addressing_method)
                  < Position(items, live_discard_window)

\* C39: the options decoder depends on the order of the options only through
\* the rule that the chunk addressing method precedes the live discard
\* window: a terminated list of options with distinct codes that keeps the
\* rule decodes, in whatever order it is, to the record its ascending-order
\* serialization decodes to.
C39_OrderIndependent ==
    (/\ codec.op = "protocol_options.decode"
     /\ "items" \in DOMAIN codec
     /\ codec.arg = Wire(codec.items, TRUE)
     /\ DistinctCodes(codec.items)
     /\ MethodBeforeWindow(codec.items))
        => LET ascending == Wire(AscendingItems(ItemSet(codec.items)), TRUE)
           IN /\ codec.res.error = "none"
              /\ codec.res = protocol_options_decode(ascending)

\* Three options out of ascending order, the method before the window, have
\* been decoded.
C39_Witness ==
    /\ codec.op = "protocol_options.decode"
    /\ "items" \in DOMAIN codec
    /\ codec.arg = Wire(codec.items, TRUE)
    /\ Len(codec.items) = 3
    /\ codec.items[1].code = chunk_size
    /\ codec.items[2].code = chunk_addressing_method
    /\ codec.items[3].code = live_discard_window
    /\ codec.res.error = "none"
    /\ codec.res.options[live_discard_window] = Some(258)
    /\ codec.res.options[chunk_size] = Some(0)

----------------------------------------------------------------------------
\* The loop of protocol_options.decode

DecodeCalls == {"protocol_options.decode", "protocol_options.decode truncated",
                "protocol_options.decode repeated"}

MaxStored == 10

\* The options a decoded record holds.
Stored(options) == {code \in DOMAIN options : options[code] # Nothing}

\* C40: protocol_options.decode terminates on every input: each iteration of
\* its loop moves the read offset forward by at least one byte and never past
\* the end of the input, and the loop stores at most 10 options before it
\* returns at the end option or fails.
C40_DecodeTerminates ==
    codec.op \in DecodeCalls
        => LET data == codec.arg
               offsets == decode_offsets(data, 0, NoOptions)
               before(i) == IF i = 1 THEN 0 ELSE offsets[i - 1]
           IN /\ \A i \in DOMAIN offsets :
                     /\ offsets[i] >= before(i) + 1
                     /\ offsets[i] <= Len(data)
              /\ IF codec.res.error = "none"
                 THEN /\ offsets # <<>>
                      /\ Len(offsets) - 1 = Cardinality(Stored(codec.res.options))
                      /\ Len(offsets) - 1 <= MaxStored
                      /\ data[offsets[Len(offsets)]] = end_option
                      /\ codec.res.rest = Slice(data, offsets[Len(offsets)], Len(data))
                 ELSE Len(offsets) <= MaxStored

\* A list of options sent twice has been decoded: the loop stored every
\* option of the first copy and failed at the first code of the second.
C40_Witness ==
    /\ codec.op = "protocol_options.decode repeated"
    /\ codec.res.error = "ValueError('duplicate option')"
    /\ Len(decode_offsets(codec.arg, 0, NoOptions)) = MaxStored
    /\ LET once == decode_offsets(codec.src[1], 0, NoOptions)
       IN decode_offsets(codec.arg, 0, NoOptions) = SubSeq(once, 1, Len(once) - 1)

====
